---- MODULE Spec2Model ----
(***************************************************************************)
(* Taint analysis engine of gosec (package taint): configuration index,   *)
(* sink scanner, taint oracle, field-sensitive analysis, interprocedural   *)
(* reachability and path reconstruction, over a small universe of SSA      *)
(* programs.                                                               *)
(***************************************************************************)
EXTENDS Integers, Sequences, FiniteSets, TLC

(***************************************************************************)
(* Bounds of the model.                                                    *)
(***************************************************************************)
MaxRoots == 2
\* goroutines that call CallGraph() on one cache, and calls of each
NumCallers == 2
MaxCalls == 2
\* activations of oracle procedures the model follows in one query
NestCeiling == 20

\* const maxTaintDepth = 50
maxTaintDepth == 50
\* depth > 30 in valueReachableFromParams
maxReachDepth == 30

(***************************************************************************)
(* go/types: the types the analyzer inspects.                              *)
(***************************************************************************)
NoType == [k |-> "none"]
Basic(n) == [k |-> "basic", name |-> n]
Named(p, n) == [k |-> "named", pkg |-> p, name |-> n]
Ptr(e) == [k |-> "ptr", elem |-> e]

\* types.Type.String(): "pkg.Name" for a named type, "*" + elem for a pointer
RECURSIVE TypeString(_)
TypeString(t) ==
  CASE t.k = "named" -> IF t.pkg = "" THEN t.name ELSE t.pkg \o "." \o t.name
    [] t.k = "ptr" -> "*" \o TypeString(t.elem)
    [] t.k = "basic" -> t.name
    [] OTHER -> ""

StrT == Basic("string")
ReqT == Named("web", "Request")
ReqP == Ptr(ReqT)
ConfT == Named("app", "Conf")
ConfP == Ptr(ConfT)
DBP == Ptr(Named("db", "DB"))
WriterT == Named("web", "Writer")
AddrP == Ptr(Named("ext", "Addr"))
NodeP == Ptr(Named("app", "Node"))

(***************************************************************************)
(* Configuration records.                                                  *)
(***************************************************************************)
Source(p, n, ptr, isf) == [Package |-> p, Name |-> n, Pointer |-> ptr, IsFunc |-> isf]
Sink(p, r, m, ptr, ca) == [Package |-> p, Receiver |-> r, Method |-> m, Pointer |-> ptr, CheckArgs |-> ca]
Sanitizer(p, r, m, ptr) == [Package |-> p, Receiver |-> r, Method |-> m, Pointer |-> ptr]
\* Sink{}: the zero value returned with ok = false
ZeroSink == Sink("", "", "", FALSE, <<>>)

formatSourceKey(src) ==
  LET key == src.Package \o "." \o src.Name
  IN IF src.Pointer THEN "*" \o key ELSE key

formatSinkKey(sink) ==
  IF sink.Receiver = "" THEN sink.Package \o "." \o sink.Method
  ELSE LET recv0 == sink.Package \o "." \o sink.Receiver
           recv == IF sink.Pointer THEN "*" \o recv0 ELSE recv0
       IN "(" \o recv \o ")." \o sink.Method

formatSanitizerKey(san) ==
  IF san.Receiver = "" THEN san.Package \o "." \o san.Method
  ELSE LET recv0 == san.Package \o "." \o san.Receiver
           recv == IF san.Pointer THEN "*" \o recv0 ELSE recv0
       IN "(" \o recv \o ")." \o san.Method

\* m[key] = val on a Go map: the last assignment to a key wins
MapPut(m, key, val) == [x \in (DOMAIN m) \cup {key} |-> IF x = key THEN val ELSE m[x]]
EmptyMap == [x \in {} |-> ZeroSink]

RECURSIVE IndexSources(_, _)
IndexSources(srcs, m) ==
  IF srcs = <<>> THEN m
  ELSE IndexSources(Tail(srcs), MapPut(m, formatSourceKey(Head(srcs)), Head(srcs)))

RECURSIVE IndexFuncSrcs(_, _)
IndexFuncSrcs(srcs, m) ==
  IF srcs = <<>> THEN m
  ELSE IndexFuncSrcs(Tail(srcs),
         IF Head(srcs).IsFunc THEN MapPut(m, formatSourceKey(Head(srcs)), Head(srcs)) ELSE m)

RECURSIVE IndexSinks(_, _)
IndexSinks(sinks, m) ==
  IF sinks = <<>> THEN m
  ELSE IndexSinks(Tail(sinks), MapPut(m, formatSinkKey(Head(sinks)), Head(sinks)))

IndexSanitizers(sans) == {formatSanitizerKey(sans[i]) : i \in DOMAIN sans}

NoGraph == [nil |-> TRUE]

\* New(config): the analyzer with its lookup tables; no call graph yet
New(config) ==
  [config |-> config,
   sources |-> IndexSources(config.Sources, EmptyMap),
   funcSrcs |-> IndexFuncSrcs(config.Sources, EmptyMap),
   sinks |-> IndexSinks(config.Sinks, EmptyMap),
   sanitizers |-> IndexSanitizers(config.Sanitizers),
   callGraph |-> NoGraph]

(***************************************************************************)
(* golang.org/x/tools/go/ssa as the analyzer sees it.  A program is a      *)
(* record [funcs, vals, order, dispatch]: funcs maps a function id to      *)
(* [name, pkg, recv, params, freevars, blocks, parent]; vals maps a value  *)
(* or instruction id to a record whose kind field is the SSA kind.         *)
(***************************************************************************)
NilV == "nil"
NoFn == "nofn"
NilFunc == [name |-> "", pkg |-> "", recv |-> NoType, params |-> <<>>,
            freevars |-> <<>>, blocks |-> <<>>, parent |-> NoFn]

Func(n, p, r, ps, bs) == [name |-> n, pkg |-> p, recv |-> r, params |-> ps,
                          freevars |-> <<>>, blocks |-> bs, parent |-> NoFn]
Closure(n, p, fvs, bs, par) == [name |-> n, pkg |-> p, recv |-> NoType, params |-> <<>>,
                                freevars |-> fvs, blocks |-> bs, parent |-> par]

Param(t) == [kind |-> "Parameter", type |-> t]
Const(t) == [kind |-> "Const", type |-> t]
StaticCall(f, as, t) == [kind |-> "Call", invoke |-> FALSE, value |-> f, method |-> "", args |-> as, type |-> t]
InvokeCall(recv, m, as) == [kind |-> "Call", invoke |-> TRUE, value |-> recv, method |-> m, args |-> as, type |-> StrT]
FieldAddr(x, i) == [kind |-> "FieldAddr", X |-> x, Field |-> i]
Unary(k, x) == [kind |-> k, X |-> x]
BinOp(x, y) == [kind |-> "BinOp", X |-> x, Y |-> y]
Phi(es) == [kind |-> "Phi", Edges |-> es]
Extract(t, i, ty) == [kind |-> "Extract", Tuple |-> t, Index |-> i, type |-> ty]
Alloc(t) == [kind |-> "Alloc", type |-> t]
Store(a, v) == [kind |-> "Store", Addr |-> a, Val |-> v]
Return(rs) == [kind |-> "Return", Results |-> rs]
Global(p, n) == [kind |-> "Global", pkg |-> p, name |-> n]
MakeClosure(f, bs) == [kind |-> "MakeClosure", Fn |-> f, Bindings |-> bs]
FreeVar(t) == [kind |-> "FreeVar", type |-> t]

\* the record of a value id; a function id used as a value is the *ssa.Function
Val(p, id) ==
  IF id \in DOMAIN p.vals THEN p.vals[id]
  ELSE IF id \in DOMAIN p.funcs THEN [kind |-> "Function", fn |-> id]
  ELSE [kind |-> "nil"]

Kind(p, id) == Val(p, id).kind

\* Value.Type()
TypeOf(p, id) == LET v == Val(p, id) IN IF "type" \in DOMAIN v THEN v.type ELSE StrT

FuncOf(p, f) == IF f \in DOMAIN p.funcs THEN p.funcs[f] ELSE NilFunc

RECURSIVE Flatten(_)
Flatten(ss) == IF ss = <<>> THEN <<>> ELSE Head(ss) \o Flatten(Tail(ss))

\* the instructions of a function, block by block
Instrs(p, f) == Flatten(FuncOf(p, f).blocks)

\* the instructions of the whole program
AllInstrs(p) == Flatten([i \in DOMAIN p.order |-> Instrs(p, p.order[i])])

\* Instruction.Operands
Operands(v) ==
  CASE v.kind = "Call" -> v.args \o <<v.value>>
    [] v.kind = "Store" -> <<v.Addr, v.Val>>
    [] v.kind = "BinOp" -> <<v.X, v.Y>>
    [] v.kind = "Phi" -> v.Edges
    [] v.kind = "Extract" -> <<v.Tuple>>
    [] v.kind = "Return" -> v.Results
    [] v.kind = "MakeClosure" -> <<v.Fn>> \o v.Bindings
    [] v.kind \in {"FieldAddr", "IndexAddr", "UnOp", "TypeAssert", "MakeInterface",
                   "Slice", "Convert", "ChangeType", "Lookup", "Field"} -> <<v.X>>
    [] OTHER -> <<>>

InSeq(x, s) == \E i \in DOMAIN s : s[i] = x

\* the instructions that use v, in program order
Users(p, v) == SelectSeq(AllInstrs(p), LAMBDA i : InSeq(v, Operands(p.vals[i])))

\* a program with the referrers of its values tabulated
Linked(p) == [name |-> p.name, funcs |-> p.funcs, vals |-> p.vals, order |-> p.order, bodies |-> p.bodies,
              externs |-> p.externs, dispatch |-> p.dispatch, roots |-> p.roots,
              refs |-> [v \in DOMAIN p.vals |-> Users(p, v)],
              parent |-> [v \in DOMAIN p.vals |->
                            IF \E f \in DOMAIN p.funcs : InSeq(v, Instrs(p, f))
                            THEN CHOOSE f \in DOMAIN p.funcs : InSeq(v, Instrs(p, f))
                            ELSE NoFn]]

\* Value.Referrers()
Referrers(p, v) == IF v \in DOMAIN p.refs THEN p.refs[v] ELSE <<>>

\* CallCommon.StaticCallee()
StaticCallee(p, call) ==
  IF call.invoke THEN NoFn
  ELSE LET fv == Val(p, call.value)
       IN CASE fv.kind = "Function" -> fv.fn
            [] fv.kind = "MakeClosure" -> fv.Fn
            [] OTHER -> NoFn

(***************************************************************************)
(* golang.org/x/tools/go/callgraph/cha: one node per function of the       *)
(* program, one edge per call site and callee; the functions are visited   *)
(* in the order forder (a Go map iteration), so the order of a node's      *)
(* in-edges varies with it.                                                *)
(***************************************************************************)
\* the callees CHA resolves for a call site
CalleesOf(p, site) ==
  LET c == Val(p, site)
      g == StaticCallee(p, c)
  IN IF g # NoFn THEN <<g>>
     ELSE IF site \in DOMAIN p.dispatch THEN p.dispatch[site]
     ELSE <<>>

EdgesOfSite(p, f, site) ==
  LET gs == CalleesOf(p, site)
  IN [i \in DOMAIN gs |-> [Caller |-> f, Site |-> site, Callee |-> gs[i]]]

EdgesOfFunc(p, f) ==
  LET calls == SelectSeq(Instrs(p, f), LAMBDA i : Kind(p, i) = "Call")
  IN Flatten([i \in DOMAIN calls |-> EdgesOfSite(p, f, calls[i])])

CallGraph(p, forder) ==
  LET edges == Flatten([i \in DOMAIN forder |-> EdgesOfFunc(p, forder[i])])
  IN [nil |-> FALSE,
      Nodes |-> [f \in {forder[i] : i \in DOMAIN forder} \cup {edges[i].Callee : i \in DOMAIN edges} |->
                   [Func |-> f, In |-> SelectSeq(edges, LAMBDA e : e.Callee = f)]]]

\* the orders in which a Go map with key set S can be iterated
Orders(S) == {s \in [1..Cardinality(S) -> S] : \A i, j \in DOMAIN s : i # j => s[i] # s[j]}

(***************************************************************************)
(* Matching calls against the configuration.  cx = [a, p]: the analyzer    *)
(* and the program.                                                        *)
(***************************************************************************)
\* package path, method name, receiver name and pointer flag of a callee
CalleeInfo(p, callee, pkg0) ==
  LET f == FuncOf(p, callee)
      r == f.recv
  IN [pkg |-> IF f.pkg # "" THEN f.pkg ELSE pkg0,
      methodName |-> f.name,
      receiverName |-> IF r.k = "named" THEN r.name
                       ELSE IF r.k = "ptr" /\ r.elem.k = "named" THEN r.elem.name
                       ELSE "",
      isPointer |-> r.k = "ptr"]

NoInfo == [pkg |-> "", methodName |-> "", receiverName |-> "", isPointer |-> FALSE]

\* the position in the iteration order ord of the first key among keys, or 0
FirstMatch(ord, keys) ==
  IF \E i \in DOMAIN ord : ord[i] \in keys
  THEN CHOOSE i \in DOMAIN ord : ord[i] \in keys /\ \A j \in 1..(i-1) : ord[j] \notin keys
  ELSE 0

\* for _, sink := range a.sinks { if sink.Package == pkg && ... } (interface call)
InvokeMatch(info, sink) ==
  sink.Package = info.pkg /\ sink.Receiver = info.receiverName /\ sink.Method = info.methodName

\* the second loop of isSinkCall without the comparison of the pointer flag
StaticMatchAnyPointer(info, sink) ==
  /\ sink.Package = info.pkg
  /\ IF sink.Receiver # ""
     THEN sink.Receiver = info.receiverName /\ sink.Method = info.methodName
     ELSE sink.Method = info.methodName /\ info.receiverName = ""

\* the second loop of isSinkCall
StaticMatch(info, sink) ==
  /\ sink.Package = info.pkg
  /\ IF sink.Receiver # ""
     THEN sink.Receiver = info.receiverName /\ sink.Method = info.methodName
          /\ sink.Pointer = info.isPointer
     ELSE sink.Method = info.methodName /\ info.receiverName = ""

\* isSinkCall(call) with both range loops iterating a.sinks in the orders
\* ord1 and ord2; returns [sink, ok]
isSinkCall(cx, call, ord1, ord2) ==
  LET c == Val(cx.p, call)
      sinks == cx.a.sinks
      recvType == TypeOf(cx.p, c.value)
      inv == IF c.invoke /\ c.value # NilV
             THEN [pkg |-> IF recvType.k = "named" THEN recvType.pkg ELSE "",
                   methodName |-> c.method,
                   receiverName |-> IF recvType.k = "named" THEN recvType.name ELSE "",
                   isPointer |-> FALSE]
             ELSE NoInfo
      m1 == IF c.invoke /\ c.value # NilV
            THEN FirstMatch(ord1, {k \in DOMAIN sinks : InvokeMatch(inv, sinks[k])}) ELSE 0
      callee == StaticCallee(cx.p, c)
      info == IF callee # NoFn THEN CalleeInfo(cx.p, callee, inv.pkg) ELSE inv
      m2 == FirstMatch(ord2, {k \in DOMAIN sinks : StaticMatch(info, sinks[k])})
  IN IF m1 # 0 THEN [sink |-> sinks[ord1[m1]], ok |-> TRUE]
     ELSE IF m2 # 0 THEN [sink |-> sinks[ord2[m2]], ok |-> TRUE]
     ELSE [sink |-> ZeroSink, ok |-> FALSE]

\* every result isSinkCall can return over the iteration orders of a.sinks
SinkCallResults(cx, call) ==
  LET os == Orders(DOMAIN cx.a.sinks)
  IN {isSinkCall(cx, call, o1, o2) : o1 \in os, o2 \in os}

RECURSIVE isSourceType(_, _)
isSourceType(cx, t) ==
  IF t = NoType THEN FALSE
  ELSE IF TypeString(t) \in DOMAIN cx.a.sources THEN TRUE
  ELSE IF t.k = "named" /\ t.pkg # ""
          /\ ((t.pkg \o "." \o t.name) \in DOMAIN cx.a.sources
              \/ ("*" \o t.pkg \o "." \o t.name) \in DOMAIN cx.a.sources) THEN TRUE
  ELSE IF t.k = "ptr" THEN isSourceType(cx, t.elem)
  ELSE FALSE

isSourceFuncCall(cx, call) ==
  LET c == Val(cx.p, call)
      callee == StaticCallee(cx.p, c)
      f == FuncOf(cx.p, callee)
      funcKey == f.pkg \o "." \o f.name
  IN IF callee = NoFn THEN FALSE
     ELSE f.pkg # "" /\ funcKey \in DOMAIN cx.a.sources /\ cx.a.sources[funcKey].IsFunc

\* isSanitizerCall with the source check made first: a call of a configured
\* source function is never taken for a sanitizer
isSanitizerCallUnlessSource(cx, call) ==
  LET c == Val(cx.p, call)
      callee == StaticCallee(cx.p, c)
      info == CalleeInfo(cx.p, callee, "")
  IN IF cx.a.sanitizers = {} THEN FALSE
     ELSE IF callee = NoFn THEN FALSE
     ELSE IF isSourceFuncCall(cx, call) THEN FALSE
     ELSE formatSanitizerKey(Sanitizer(info.pkg, info.receiverName, info.methodName,
                                       info.isPointer)) \in cx.a.sanitizers

isSanitizerCall(cx, call) ==
  LET c == Val(cx.p, call)
      callee == StaticCallee(cx.p, c)
      info == CalleeInfo(cx.p, callee, "")
  IN IF cx.a.sanitizers = {} THEN FALSE
     ELSE IF callee = NoFn THEN FALSE
     ELSE formatSanitizerKey(Sanitizer(info.pkg, info.receiverName, info.methodName,
                                       info.isPointer)) \in cx.a.sanitizers

(***************************************************************************)
(* The taint oracle.  Every procedure takes the visited map and the depth  *)
(* and returns [t, vis]: its boolean answer and the visited map as the     *)
(* call left it (the Go map is shared by reference along one query).  A    *)
(* procedure calls another one as Oracle("name", <<arguments>>).           *)
(***************************************************************************)
R(t, vis) == [t |-> t, vis |-> vis]

\* pairs <<value, function>> for a list of values of one function
OnFn(vs, fn) == [i \in DOMAIN vs |-> <<vs[i], fn>>]

IndexOf(x, s) == IF InSeq(x, s) THEN CHOOSE i \in DOMAIN s : s[i] = x /\ \A j \in 1..(i-1) : s[j] # x
                 ELSE 0

\* the values of the stores the Alloc case of isTainted inspects, in order
AllocStoredVals(p, alloc) ==
  LET refs == Referrers(p, alloc)
      OfRef(ref) ==
        LET r == Val(p, ref)
        IN IF r.kind = "Store" THEN <<r.Val>>
           ELSE IF r.kind = "IndexAddr"
           THEN LET irefs == SelectSeq(Referrers(p, ref), LAMBDA i : Kind(p, i) = "Store")
                IN [i \in DOMAIN irefs |-> Val(p, irefs[i]).Val]
           ELSE <<>>
  IN Flatten([i \in DOMAIN refs |-> OfRef(refs[i])])

\* the values the MakeSlice case of isTainted inspects, in order
MakeSliceVals(p, ms) ==
  LET refs == Referrers(p, ms)
      OfRef(ref) ==
        LET r == Val(p, ref)
        IN IF r.kind = "Store" THEN <<r.Val>>
           ELSE IF r.kind = "Call" THEN SelectSeq(r.args, LAMBDA x : x # ms)
           ELSE <<>>
  IN Flatten([i \in DOMAIN refs |-> OfRef(refs[i])])

\* the values stored through a field address of alloc, whatever the index
FieldStoredValsAnyIndex(p, alloc, fieldIdx) ==
  LET refs == SelectSeq(Referrers(p, alloc), LAMBDA i : Kind(p, i) = "FieldAddr")
      OfFA(fa) ==
        LET sts == SelectSeq(Referrers(p, fa),
                             LAMBDA i : Kind(p, i) = "Store" /\ Val(p, i).Addr = fa)
        IN [i \in DOMAIN sts |-> Val(p, sts[i]).Val]
  IN Flatten([i \in DOMAIN refs |-> OfFA(refs[i])])

\* the values stored through a field address of alloc at index fieldIdx
FieldStoredVals(p, alloc, fieldIdx) ==
  LET refs == SelectSeq(Referrers(p, alloc),
                        LAMBDA i : Kind(p, i) = "FieldAddr" /\ Val(p, i).Field = fieldIdx)
      OfFA(fa) ==
        LET sts == SelectSeq(Referrers(p, fa),
                             LAMBDA i : Kind(p, i) = "Store" /\ Val(p, i).Addr = fa)
        IN [i \in DOMAIN sts |-> Val(p, sts[i]).Val]
  IN Flatten([i \in DOMAIN refs |-> OfFA(refs[i])])

\* the values the Alloc case of valueReachableFromParams inspects, in order
AllocReachVals(p, alloc) ==
  LET refs == Referrers(p, alloc)
      OfRef(ref) ==
        LET r == Val(p, ref)
        IN IF r.kind = "Store" /\ r.Addr = alloc THEN <<r.Val>>
           ELSE IF r.kind = "FieldAddr"
           THEN LET sts == SelectSeq(Referrers(p, ref),
                                     LAMBDA i : Kind(p, i) = "Store" /\ Val(p, i).Addr = ref)
                IN [i \in DOMAIN sts |-> Val(p, sts[i]).Val]
           ELSE <<>>
  IN Flatten([i \in DOMAIN refs |-> OfRef(refs[i])])

\* the results of the Return instructions of a function, in order
ReturnedVals(p, f) ==
  LET rets == SelectSeq(Instrs(p, f), LAMBDA i : Kind(p, i) = "Return")
  IN Flatten([i \in DOMAIN rets |-> Val(p, rets[i]).Results])

RECURSIVE traceToAllocImpl(_, _, _)
RECURSIVE traceEdges(_, _, _)
\* returns [alloc, seen]
traceToAllocImpl(p, v, seen) ==
  IF v = NilV \/ v \in seen THEN [alloc |-> NilV, seen |-> seen]
  ELSE LET seen1 == seen \cup {v}
           val == Val(p, v)
       IN CASE val.kind = "Alloc" -> [alloc |-> v, seen |-> seen1]
            [] val.kind = "Phi" -> traceEdges(p, val.Edges, seen1)
            [] val.kind \in {"MakeInterface", "ChangeType", "Convert", "UnOp"} ->
                 traceToAllocImpl(p, val.X, seen1)
            [] OTHER -> [alloc |-> NilV, seen |-> seen1]

\* for _, e := range val.Edges { if a := traceToAllocImpl(e, seen); a != nil { return a } }
traceEdges(p, es, seen) ==
  IF es = <<>> THEN [alloc |-> NilV, seen |-> seen]
  ELSE LET r == traceToAllocImpl(p, Head(es), seen)
       IN IF r.alloc # NilV THEN r ELSE traceEdges(p, Tail(es), r.seen)

traceToAlloc(p, v) == traceToAllocImpl(p, v, {}).alloc

RECURSIVE valueReachableFromParams(_, _, _, _, _)
RECURSIVE AnyReachable(_, _, _, _, _)
valueReachableFromParams(cx, v, taintedParams, visited, depth) ==
  IF v = NilV \/ depth > maxReachDepth \/ v \in visited THEN R(FALSE, visited)
  ELSE LET vis == visited \cup {v}
           val == Val(cx.p, v)
           k == val.kind
       IN CASE k = "Parameter" -> R(v \in taintedParams, vis)
            [] k \in {"Const", "Global"} -> R(FALSE, vis)
            [] k = "Alloc" -> AnyReachable(cx, AllocReachVals(cx.p, v), taintedParams, vis, depth + 1)
            [] k = "Call" -> AnyReachable(cx, val.args \o (IF val.value # NilV THEN <<val.value>> ELSE <<>>),
                                          taintedParams, vis, depth + 1)
            [] k = "Phi" -> AnyReachable(cx, val.Edges, taintedParams, vis, depth + 1)
            [] k = "BinOp" -> AnyReachable(cx, <<val.X, val.Y>>, taintedParams, vis, depth + 1)
            [] k \in {"UnOp", "Convert", "ChangeType", "MakeInterface", "TypeAssert", "Slice",
                      "FieldAddr", "IndexAddr", "Lookup"} ->
                 valueReachableFromParams(cx, val.X, taintedParams, vis, depth + 1)
            [] k = "Extract" -> valueReachableFromParams(cx, val.Tuple, taintedParams, vis, depth + 1)
            [] k = "FreeVar" -> R(FALSE, vis)
            [] OTHER -> R(FALSE, vis)

\* a loop that returns true at the first reachable value
AnyReachable(cx, vs, taintedParams, visited, depth) ==
  IF vs = <<>> THEN R(FALSE, visited)
  ELSE LET r == valueReachableFromParams(cx, Head(vs), taintedParams, visited, depth)
       IN IF r.t THEN r ELSE AnyReachable(cx, Tail(vs), taintedParams, r.vis, depth)

\* a constant typed as a source is tainted
isConstTaintedByType(cx, v) == isSourceType(cx, TypeOf(cx.p, v))

\* case *ssa.Const of isTainted: constants are never tainted
isConstTainted(cx, v) == FALSE

\* a global that becomes tainted as soon as something is stored into it
isGlobalTaintedByStore(cx, v) ==
  \/ Val(cx.p, v).pkg # "" /\ (Val(cx.p, v).pkg \o "." \o Val(cx.p, v).name) \in DOMAIN cx.a.sources
  \/ \E x \in DOMAIN cx.p.vals : cx.p.vals[x].kind = "Store" /\ cx.p.vals[x].Addr = v

\* case *ssa.Global of isTainted: tainted iff pkg.Name is a configured source
isGlobalTainted(cx, v) ==
  LET val == Val(cx.p, v)
  IN val.pkg # "" /\ (val.pkg \o "." \o val.name) \in DOMAIN cx.a.sources

\* the test of the visited map that never finds the value
isVisitedNever(visited, v) == FALSE

\* "if visited[v] { return false }"
isVisited(visited, v) == v \in visited.seen

\* depth > maxTaintDepth without the test
tooDeepNever(depth) == FALSE

\* "if depth > maxTaintDepth { return false }"
tooDeep(depth) == depth > maxTaintDepth

\* make(map[ssa.Value]bool) of a query, with the record of the query: seen
\* is the map; nest the largest number of activations of oracle functions in
\* progress at once so far; flat whether a function called another one with
\* a depth not above its own; disp the values isTainted dispatched on, in
\* order; climbs whether a function called another one without descending
\* (see Descends); over whether the activations reached NestCeiling, where
\* the model stops following the recursion.
NewVisited == [seen |-> {}, nest |-> 0, flat |-> FALSE, disp |-> <<>>, climbs |-> FALSE, over |-> FALSE]

\* no activation in progress
NoActivation == [proc |-> "", depth |-> 0, val |-> NilV]

\* the rank of a function of the oracle among the calls that keep the depth:
\* such a call goes to a function of lower rank, or from isFieldAccessTainted
\* to itself on the struct operand
Rank(proc) ==
  CASE proc = "isFieldAccessTainted" -> 5
    [] proc = "isFieldAccessOnPointerTainted" -> 4
    [] proc = "isFieldTaintedOnValue" -> 3
    [] proc = "isTainted" -> 1
    [] OTHER -> 2

\* the call of proc on val at depth by the activation top descends: the
\* depth grows, or it stays and the rank falls, or it stays and
\* isFieldAccessTainted goes on with the operand of its field address
Descends(p, top, proc, val, depth) ==
  \/ depth > top.depth
  \/ depth = top.depth /\ Rank(proc) < Rank(top.proc)
  \/ /\ depth = top.depth /\ proc = top.proc /\ proc = "isFieldAccessTainted"
     /\ val = Val(p, top.val).X

\* the context of the callee: one more activation in progress, the callee's
Enter(proc, x) ==
  [x[1] EXCEPT !.nest = @ + 1, !.top = [proc |-> proc, depth |-> x[Len(x)], val |-> x[2]]]

\* the record of the query with the call noted
Noted(proc, x) ==
  LET cx == x[1]
      depth == x[Len(x)]
  IN [x[Len(x) - 1] EXCEPT
        !.nest = IF cx.nest + 1 > @ THEN cx.nest + 1 ELSE @,
        !.flat = @ \/ (cx.nest > 0 /\ cx.top.proc # proc /\ depth <= cx.top.depth),
        !.climbs = @ \/ (cx.nest > 0 /\ ~Descends(cx.p, cx.top, proc, x[2], depth))]

RECURSIVE Oracle(_, _)

\* a loop "for _, x := range xs { if a.isTainted(x, fn, visited, depth) { return true } }"
\* over pairs <<value, function>>
RECURSIVE AnyTainted(_, _, _, _)
AnyTainted(cx, pairs, visited, depth) ==
  IF pairs = <<>> THEN R(FALSE, visited)
  ELSE LET r == Oracle("isTainted", <<cx, Head(pairs)[1], Head(pairs)[2], visited, depth>>)
       IN IF r.t THEN r ELSE AnyTainted(cx, Tail(pairs), r.vis, depth)

RECURSIVE AnyFieldTaintedOnValue(_, _, _, _, _, _)
AnyFieldTaintedOnValue(cx, vs, fieldIdx, fn, visited, depth) ==
  IF vs = <<>> THEN R(FALSE, visited)
  ELSE LET r == Oracle("isFieldTaintedOnValue", <<cx, Head(vs), fieldIdx, fn, visited, depth>>)
       IN IF r.t THEN r ELSE AnyFieldTaintedOnValue(cx, Tail(vs), fieldIdx, fn, r.vis, depth)

\* the loop of isFieldTaintedViaCall over the allocations its returns trace to
RECURSIVE AnyReturnedAllocTainted(_, _, _, _, _, _, _, _)
AnyReturnedAllocTainted(cx, allocs, fieldIdx, callee, call, callerFn, visited, depth) ==
  IF allocs = <<>> THEN R(FALSE, visited)
  ELSE LET r == Oracle("isFieldOfAllocTaintedInCallee", <<cx, Head(allocs), fieldIdx, callee, call, callerFn,
                                              visited, depth>>)
       IN IF r.t THEN r
          ELSE AnyReturnedAllocTainted(cx, Tail(allocs), fieldIdx, callee, call, callerFn, r.vis, depth)

RECURSIVE AnyCalleValueTainted(_, _, _, _, _, _, _)
AnyCalleValueTainted(cx, vs, callee, call, callerFn, visited, depth) ==
  IF vs = <<>> THEN R(FALSE, visited)
  ELSE LET r == Oracle("isCalleValueTainted", <<cx, Head(vs), callee, call, callerFn, visited, depth>>)
       IN IF r.t THEN r ELSE AnyCalleValueTainted(cx, Tail(vs), callee, call, callerFn, r.vis, depth)

\* the first loop of doTaintedArgsFlowToReturn: every argument is queried;
\* returns [idx, vis], the 0-based positions of the tainted arguments
RECURSIVE TaintedArgs(_, _, _, _, _, _, _)
TaintedArgs(cx, args, i, callerFn, visited, depth, acc) ==
  IF i > Len(args) THEN [idx |-> acc, vis |-> visited]
  ELSE LET r == Oracle("isTainted", <<cx, args[i], callerFn, visited, depth>>)
       IN TaintedArgs(cx, args, i + 1, callerFn, r.vis, depth,
                      IF r.t THEN acc \cup {i - 1} ELSE acc)

\* case *ssa.Call of isTainted
isCallTainted(cx, v, fn, vis, depth) ==
  LET val == Val(cx.p, v)
      callee == StaticCallee(cx.p, val)
      f == FuncOf(cx.p, callee)
      \* the method part: interface call, or static call of a method
      rA == IF val.invoke
            THEN AnyTainted(cx, OnFn((IF val.value # NilV THEN <<val.value>> ELSE <<>>) \o val.args, fn),
                            vis, depth + 1)
            ELSE IF callee # NoFn /\ f.recv # NoType
            THEN LET r0 == IF Len(val.args) > 0 THEN Oracle("isTainted", <<cx, val.args[1], fn, vis, depth + 1>>)
                           ELSE R(FALSE, vis)
                 IN IF r0.t THEN r0
                    ELSE IF Len(f.blocks) > 0
                    THEN Oracle("doTaintedArgsFlowToReturn", <<cx, v, callee, fn, r0.vis, depth + 1>>)
                    ELSE IF Len(val.args) > 1
                    THEN AnyTainted(cx, OnFn(Tail(val.args), fn), r0.vis, depth + 1)
                    ELSE R(FALSE, r0.vis)
            ELSE R(FALSE, vis)
      \* plain functions
      rB == IF callee # NoFn /\ f.recv = NoType
            THEN IF Len(f.blocks) > 0
                 THEN Oracle("doTaintedArgsFlowToReturn", <<cx, v, callee, fn, rA.vis, depth + 1>>)
                 ELSE AnyTainted(cx, OnFn(val.args, fn), rA.vis, depth + 1)
            ELSE R(FALSE, rA.vis)
      \* builtin calls
      rC == IF Kind(cx.p, val.value) = "Builtin"
            THEN AnyTainted(cx, OnFn(val.args, fn), rB.vis, depth + 1)
            ELSE R(FALSE, rB.vis)
  IN IF isSanitizerCall(cx, v) THEN R(FALSE, vis)
     ELSE IF isSourceFuncCall(cx, v) THEN R(TRUE, vis)
     ELSE IF rA.t THEN rA
     ELSE IF rB.t THEN rB
     ELSE rC

isTainted(cx, v, fn, visited, depth) ==
  IF v = NilV THEN R(FALSE, visited)
  ELSE IF tooDeep(depth) THEN R(FALSE, visited)
  ELSE IF isVisited(visited, v) THEN R(FALSE, visited)
  ELSE LET vis == [visited EXCEPT !.seen = @ \cup {v}, !.disp = Append(@, v)]
           val == Val(cx.p, v)
           k == val.kind
       IN CASE k = "Parameter" -> Oracle("isParameterTainted", <<cx, v, fn, vis, depth + 1>>)
            [] k = "Call" -> isCallTainted(cx, v, fn, vis, depth)
            [] k = "FieldAddr" -> Oracle("isFieldAccessTainted", <<cx, v, fn, vis, depth + 1>>)
            [] k \in {"IndexAddr", "UnOp", "TypeAssert", "MakeInterface", "Slice", "Convert",
                      "ChangeType", "Lookup"} -> Oracle("isTainted", <<cx, val.X, fn, vis, depth + 1>>)
            [] k = "BinOp" -> AnyTainted(cx, OnFn(<<val.X, val.Y>>, fn), vis, depth + 1)
            [] k = "Phi" -> AnyTainted(cx, OnFn(val.Edges, fn), vis, depth + 1)
            [] k = "Extract" -> Oracle("isTainted", <<cx, val.Tuple, fn, vis, depth + 1>>)
            [] k = "Alloc" -> AnyTainted(cx, OnFn(AllocStoredVals(cx.p, v), fn), vis, depth + 1)
            [] k = "MakeSlice" -> AnyTainted(cx, OnFn(MakeSliceVals(cx.p, v), fn), vis, depth + 1)
            [] k \in {"MakeMap", "MakeChan"} -> R(FALSE, vis)
            [] k = "Const" -> R(isConstTainted(cx, v), vis)
            [] k = "Global" -> R(isGlobalTainted(cx, v), vis)
            [] k = "FreeVar" -> Oracle("isFreeVarTainted", <<cx, v, fn, vis, depth + 1>>)
            [] OTHER -> R(FALSE, vis)


isParameterTainted(cx, param, fn, visited, depth) ==
  LET g == cx.a.callGraph
      f == FuncOf(cx.p, fn)
      paramIdx == IndexOf(param, f.params) - 1
      adjustedIdx == paramIdx
      In == g.Nodes[fn].In
      sites == SelectSeq(In, LAMBDA e : e.Site # NilV
                                        /\ adjustedIdx < Len(Val(cx.p, e.Site).args))
      pairs == [i \in DOMAIN sites |->
                  <<Val(cx.p, sites[i].Site).args[adjustedIdx + 1], sites[i].Caller>>]
  IN IF tooDeep(depth) THEN R(FALSE, visited)
     ELSE IF isSourceType(cx, TypeOf(cx.p, param)) THEN R(TRUE, visited)
     ELSE IF g.nil THEN R(FALSE, visited)
     ELSE IF fn \notin DOMAIN g.Nodes THEN R(FALSE, visited)
     ELSE IF paramIdx < 0 THEN R(FALSE, visited)
     ELSE AnyTainted(cx, pairs, visited, depth + 1)

isFreeVarTainted(cx, fv, fn, visited, depth) ==
  LET f == FuncOf(cx.p, fn)
      parent == f.parent
      \* the bindings that correspond to fv, over the MakeClosure instructions
      \* of the parent that create fn, in order
      mcs == SelectSeq(Instrs(cx.p, parent),
                       LAMBDA i : /\ Kind(cx.p, i) = "MakeClosure"
                                  /\ Val(cx.p, i).Fn = fn
                                  /\ \E b \in DOMAIN Val(cx.p, i).Bindings :
                                        b <= Len(f.freevars) /\ f.freevars[b] = fv)
      mc == Val(cx.p, mcs[1])
      bidx == CHOOSE b \in DOMAIN mc.Bindings :
                 /\ b <= Len(f.freevars) /\ f.freevars[b] = fv
                 /\ \A c \in 1..(b-1) : f.freevars[c] # fv
  IN IF tooDeep(depth) THEN R(FALSE, visited)
     ELSE IF parent = NoFn THEN R(FALSE, visited)
     ELSE IF mcs = <<>> THEN R(FALSE, visited)
     ELSE Oracle("isTainted", <<cx, mc.Bindings[bidx], parent, visited, depth + 1>>)

isFieldAccessTainted(cx, fa, fn, visited, depth) ==
  LET val == Val(cx.p, fa)
      x == val.X
      xv == Val(cx.p, x)
      xcallee == IF xv.kind = "Call" THEN StaticCallee(cx.p, xv) ELSE NoFn
      tv == IF xv.kind = "Extract" THEN Val(cx.p, xv.Tuple) ELSE [kind |-> "nil"]
      tcallee == IF tv.kind = "Call" THEN StaticCallee(cx.p, tv) ELSE NoFn
  IN IF tooDeep(depth) THEN R(FALSE, visited)
     \* CASE 1: struct of a source type
     ELSE IF isSourceType(cx, TypeOf(cx.p, x))
     THEN IF xv.kind = "Parameter" THEN R(TRUE, visited)
          ELSE Oracle("isTainted", <<cx, x, fn, visited, depth>>)
     \* CASE 2: struct returned by a call
     ELSE IF xv.kind = "Call"
     THEN IF xcallee # NoFn /\ FuncOf(cx.p, xcallee).blocks # <<>>
          THEN Oracle("isFieldTaintedViaCall", <<cx, x, val.Field, xcallee, fn, visited, depth>>)
          ELSE Oracle("isTainted", <<cx, x, fn, visited, depth>>)
     \* CASE 3: struct from an Extract
     ELSE IF xv.kind = "Extract"
     THEN IF tv.kind = "Call" /\ tcallee # NoFn /\ FuncOf(cx.p, tcallee).blocks # <<>>
          THEN Oracle("isFieldTaintedViaCall", <<cx, xv.Tuple, val.Field, tcallee, fn, visited, depth>>)
          ELSE Oracle("isTainted", <<cx, x, fn, visited, depth>>)
     \* CASE 4: local Alloc
     ELSE IF xv.kind = "Alloc"
     THEN Oracle("isFieldOfAllocTainted", <<cx, x, val.Field, fn, visited, depth>>)
     \* CASE 5: pointer dereference
     ELSE IF xv.kind = "UnOp"
     THEN Oracle("isFieldAccessOnPointerTainted", <<cx, x, val.Field, fn, visited, depth>>)
     \* CASE 6: phi
     ELSE IF xv.kind = "Phi"
     THEN AnyFieldTaintedOnValue(cx, xv.Edges, val.Field, fn, visited, depth + 1)
     \* CASE 7: nested field access
     ELSE IF xv.kind = "FieldAddr"
     THEN Oracle("isFieldAccessTainted", <<cx, x, fn, visited, depth>>)
     ELSE Oracle("isTainted", <<cx, x, fn, visited, depth>>)


isFieldTaintedOnValue(cx, v, fieldIdx, fn, visited, depth) ==
  LET val == Val(cx.p, v)
      callee == IF val.kind = "Call" THEN StaticCallee(cx.p, val) ELSE NoFn
      tv == IF val.kind = "Extract" THEN Val(cx.p, val.Tuple) ELSE [kind |-> "nil"]
      tcallee == IF tv.kind = "Call" THEN StaticCallee(cx.p, tv) ELSE NoFn
  IN IF v = NilV \/ tooDeep(depth) THEN R(FALSE, visited)
     ELSE CASE val.kind = "Call" ->
                 IF callee # NoFn /\ FuncOf(cx.p, callee).blocks # <<>>
                 THEN Oracle("isFieldTaintedViaCall", <<cx, v, fieldIdx, callee, fn, visited, depth>>)
                 ELSE Oracle("isTainted", <<cx, v, fn, visited, depth>>)
            [] val.kind = "Extract" ->
                 IF tv.kind = "Call" /\ tcallee # NoFn /\ FuncOf(cx.p, tcallee).blocks # <<>>
                 THEN Oracle("isFieldTaintedViaCall", <<cx, val.Tuple, fieldIdx, tcallee, fn, visited, depth>>)
                 ELSE Oracle("isTainted", <<cx, v, fn, visited, depth>>)
            [] val.kind = "Alloc" -> Oracle("isFieldOfAllocTainted", <<cx, v, fieldIdx, fn, visited, depth>>)
            [] val.kind = "Phi" -> AnyFieldTaintedOnValue(cx, val.Edges, fieldIdx, fn, visited, depth + 1)
            [] OTHER -> Oracle("isTainted", <<cx, v, fn, visited, depth>>)

isFieldOfAllocTainted(cx, alloc, fieldIdx, fn, visited, depth) ==
  AnyTainted(cx, OnFn(FieldStoredVals(cx.p, alloc, fieldIdx), fn), visited, depth + 1)

isFieldAccessOnPointerTainted(cx, unop, fieldIdx, fn, visited, depth) ==
  Oracle("isFieldTaintedOnValue", <<cx, Val(cx.p, unop).X, fieldIdx, fn, visited, depth>>)

isFieldTaintedViaCall(cx, call, fieldIdx, callee, callerFn, visited, depth) ==
  LET c == Val(cx.p, call)
      rets == ReturnedVals(cx.p, callee)
      allocs == SelectSeq([i \in DOMAIN rets |-> traceToAlloc(cx.p, rets[i])], LAMBDA al : al # NilV)
  IN IF tooDeep(depth) \/ callee = NoFn THEN R(FALSE, visited)
     ELSE IF FuncOf(cx.p, callee).blocks = <<>>
     THEN AnyTainted(cx, OnFn(c.args, callerFn), visited, depth)
     ELSE AnyReturnedAllocTainted(cx, allocs, fieldIdx, callee, call, callerFn, visited, depth + 1)


isFieldOfAllocTaintedInCallee(cx, alloc, fieldIdx, callee, call, callerFn, visited, depth) ==
  IF tooDeep(depth) THEN R(FALSE, visited)
  ELSE AnyCalleValueTainted(cx, FieldStoredVals(cx.p, alloc, fieldIdx), callee, call, callerFn,
                            visited, depth + 1)


isCalleValueTainted(cx, v, callee, call, callerFn, visited, depth) ==
  LET val == Val(cx.p, v)
      k == val.kind
      params == FuncOf(cx.p, callee).params
      args == Val(cx.p, call).args
      i == IndexOf(v, params)
  IN IF v = NilV \/ tooDeep(depth) THEN R(FALSE, visited)
     ELSE CASE k = "Parameter" ->
                 IF i # 0 /\ i - 1 < Len(args)
                 THEN Oracle("isTainted", <<cx, args[i], callerFn, visited, depth>>)
                 ELSE R(FALSE, visited)
            [] k = "Const" -> R(FALSE, visited)
            [] k = "Call" ->
                 IF isSanitizerCall(cx, v) THEN R(FALSE, visited)
                 ELSE IF isSourceFuncCall(cx, v) THEN R(TRUE, visited)
                 ELSE AnyCalleValueTainted(cx, val.args, callee, call, callerFn, visited, depth + 1)
            [] k = "Extract" -> Oracle("isCalleValueTainted", <<cx, val.Tuple, callee, call, callerFn, visited, depth + 1>>)
            [] k = "Phi" -> AnyCalleValueTainted(cx, val.Edges, callee, call, callerFn, visited, depth + 1)
            [] k = "BinOp" -> AnyCalleValueTainted(cx, <<val.X, val.Y>>, callee, call, callerFn, visited, depth + 1)
            [] k \in {"Convert", "ChangeType", "FieldAddr", "UnOp"} ->
                 Oracle("isCalleValueTainted", <<cx, val.X, callee, call, callerFn, visited, depth + 1>>)
            [] OTHER -> Oracle("isTainted", <<cx, v, callee, visited, depth>>)


\* doTaintedArgsFlowToReturn without the reachability check: a tainted
\* argument taints the result
doTaintedArgsTaintReturn(cx, call, callee, callerFn, visited, depth) ==
  LET ta == TaintedArgs(cx, Val(cx.p, call).args, 1, callerFn, visited, depth, {})
  IN IF tooDeep(depth) THEN R(FALSE, visited)
     ELSE R(ta.idx # {}, ta.vis)

\* doTaintedArgsFlowToReturn that looks for source calls among the returned
\* values when no argument is tainted
doSourcesFlowToReturn(cx, call, callee, callerFn, visited, depth) ==
  LET c == Val(cx.p, call)
      ta == TaintedArgs(cx, c.args, 1, callerFn, visited, depth, {})
      params == FuncOf(cx.p, callee).params
      taintedParams == {params[idx + 1] : idx \in {j \in ta.idx : j < Len(params)}}
      rets == ReturnedVals(cx.p, callee)
  IN IF tooDeep(depth) THEN R(FALSE, visited)
     ELSE IF ta.idx = {}
     THEN R(\E j \in DOMAIN rets : Kind(cx.p, rets[j]) = "Call" /\ isSourceFuncCall(cx, rets[j]), ta.vis)
     ELSE R(\E j \in DOMAIN rets : valueReachableFromParams(cx, rets[j], taintedParams, {}, 0).t,
            ta.vis)

doTaintedArgsFlowToReturn(cx, call, callee, callerFn, visited, depth) ==
  LET c == Val(cx.p, call)
      ta == TaintedArgs(cx, c.args, 1, callerFn, visited, depth, {})
      params == FuncOf(cx.p, callee).params
      taintedParams == {params[idx + 1] : idx \in {j \in ta.idx : j < Len(params)}}
      rets == ReturnedVals(cx.p, callee)
  IN IF tooDeep(depth) THEN R(FALSE, visited)
     ELSE IF ta.idx = {} THEN R(FALSE, ta.vis)
     ELSE R(\E j \in DOMAIN rets : valueReachableFromParams(cx, rets[j], taintedParams, {}, 0).t,
            ta.vis)

\* a call of a Go function of the oracle, proc(x[1], ..., x[n]): the function
\* runs as one more activation, which the record of the query notes
Oracle(proc, x) ==
  IF x[1].nest >= NestCeiling THEN R(FALSE, [x[Len(x) - 1] EXCEPT !.over = TRUE])
  ELSE CASE proc = "isTainted" ->
              isTainted(Enter(proc, x), x[2], x[3], Noted(proc, x), x[5])
         [] proc = "isParameterTainted" ->
              isParameterTainted(Enter(proc, x), x[2], x[3], Noted(proc, x), x[5])
         [] proc = "isFreeVarTainted" ->
              isFreeVarTainted(Enter(proc, x), x[2], x[3], Noted(proc, x), x[5])
         [] proc = "isFieldAccessTainted" ->
              isFieldAccessTainted(Enter(proc, x), x[2], x[3], Noted(proc, x), x[5])
         [] proc = "isFieldTaintedOnValue" ->
              isFieldTaintedOnValue(Enter(proc, x), x[2], x[3], x[4], Noted(proc, x), x[6])
         [] proc = "isFieldOfAllocTainted" ->
              isFieldOfAllocTainted(Enter(proc, x), x[2], x[3], x[4], Noted(proc, x), x[6])
         [] proc = "isFieldAccessOnPointerTainted" ->
              isFieldAccessOnPointerTainted(Enter(proc, x), x[2], x[3], x[4], Noted(proc, x), x[6])
         [] proc = "isFieldTaintedViaCall" ->
              isFieldTaintedViaCall(Enter(proc, x), x[2], x[3], x[4], x[5], Noted(proc, x), x[7])
         [] proc = "isFieldOfAllocTaintedInCallee" ->
              isFieldOfAllocTaintedInCallee(Enter(proc, x), x[2], x[3], x[4], x[5], x[6], Noted(proc, x), x[8])
         [] proc = "isCalleValueTainted" ->
              isCalleValueTainted(Enter(proc, x), x[2], x[3], x[4], x[5], Noted(proc, x), x[7])
         [] proc = "doTaintedArgsFlowToReturn" ->
              doTaintedArgsFlowToReturn(Enter(proc, x), x[2], x[3], x[4], Noted(proc, x), x[6])


RECURSIVE buildPathLoopAppend(_, _, _, _)
\* buildPath's loop with "path = append(path, caller)": callers after the function
buildPathLoopAppend(g, current, path, visited) ==
  IF current \notin DOMAIN g.Nodes THEN path
  ELSE IF Len(g.Nodes[current].In) = 0 THEN path
  ELSE IF current \in visited THEN path
  ELSE LET caller == g.Nodes[current].In[1].Caller
       IN IF caller = NoFn THEN path
          ELSE buildPathLoopAppend(g, caller, Append(path, caller), visited \cup {current})

RECURSIVE buildPathLoop(_, _, _, _)
\* for current != nil && len(current.In) > 0 { ... }
buildPathLoop(g, current, path, visited) ==
  IF current \notin DOMAIN g.Nodes THEN path
  ELSE IF Len(g.Nodes[current].In) = 0 THEN path
  ELSE IF current \in visited THEN path
  ELSE LET caller == g.Nodes[current].In[1].Caller
       IN IF caller = NoFn THEN path
          ELSE buildPathLoop(g, caller, <<caller>> \o path, visited \cup {current})

buildPath(cx, fn) ==
  IF cx.a.callGraph.nil THEN <<fn>>
  ELSE IF fn \notin DOMAIN cx.a.callGraph.Nodes THEN <<fn>>
  ELSE buildPathLoop(cx.a.callGraph, fn, <<fn>>, {})

(***************************************************************************)
(* The sink scanner and Analyze.                                           *)
(***************************************************************************)
Result(sink, pos, path) == [Sink |-> sink, SinkPos |-> pos, Path |-> path]

\* the arguments at the positions idx of CheckArgs with idx < len(args)
CheckedArgs(sink, args) ==
  IF Len(sink.CheckArgs) > 0
  THEN LET idxs == SelectSeq(sink.CheckArgs, LAMBDA idx : idx < Len(args))
       IN [j \in DOMAIN idxs |-> args[idxs[j] + 1]]
  ELSE args

\* call.Call.Args[idx] with idx < 0: index out of range, the run aborts
IndexPanics(sink, args) ==
  Len(sink.CheckArgs) > 0 /\ \E j \in DOMAIN sink.CheckArgs : sink.CheckArgs[j] < 0

\* the body of the instruction loop without the break after the first tainted
\* argument: one finding per tainted checked argument
scanCallNoBreak(cx, fn, call, sr) ==
  LET args == Val(cx.p, call).args
      argsToCheck == CheckedArgs(sr.sink, args)
      hits == SelectSeq(argsToCheck, LAMBDA x : Oracle("isTainted", <<cx, x, fn, NewVisited, 0>>).t)
  IN IF ~sr.ok THEN [panic |-> FALSE, results |-> <<>>]
     ELSE IF IndexPanics(sr.sink, args) THEN [panic |-> TRUE, results |-> <<>>]
     ELSE [panic |-> FALSE,
           results |-> [j \in DOMAIN hits |-> Result(sr.sink, call, buildPath(cx, fn))]]

\* the body of the instruction loop of analyzeFunctionSinks for one call
\* instruction, given what isSinkCall returned; [panic, results]
scanCall(cx, fn, call, sr) ==
  LET args == Val(cx.p, call).args
      argsToCheck == CheckedArgs(sr.sink, args)
  IN IF ~sr.ok THEN [panic |-> FALSE, results |-> <<>>]
     ELSE IF IndexPanics(sr.sink, args) THEN [panic |-> TRUE, results |-> <<>>]
     ELSE IF \E j \in DOMAIN argsToCheck : Oracle("isTainted", <<cx, argsToCheck[j], fn, NewVisited, 0>>).t
     THEN [panic |-> FALSE, results |-> <<Result(sr.sink, call, buildPath(cx, fn))>>]
     ELSE [panic |-> FALSE, results |-> <<>>]

RECURSIVE scanCalls(_, _, _)
\* every outcome of the block and instruction loops over the call
\* instructions calls, one per choice of the sinks' iteration orders
scanCalls(cx, fn, calls) ==
  IF calls = <<>> THEN {[panic |-> FALSE, results |-> <<>>]}
  ELSE LET firsts == {scanCall(cx, fn, Head(calls), sr) : sr \in SinkCallResults(cx, Head(calls))}
           rest == scanCalls(cx, fn, Tail(calls))
       IN {IF o1.panic THEN o1
           ELSE [panic |-> o2.panic, results |-> IF o2.panic THEN <<>> ELSE o1.results \o o2.results] :
             o1 \in firsts, o2 \in rest}

\* analyzeFunctionSinks(fn): the set of outcomes [panic, results]
analyzeFunctionSinks(cx, fn) ==
  IF fn = NoFn \/ FuncOf(cx.p, fn).blocks = <<>> THEN {[panic |-> FALSE, results |-> <<>>]}
  ELSE scanCalls(cx, fn, SelectSeq(Instrs(cx.p, fn), LAMBDA i : Kind(cx.p, i) = "Call"))

(***************************************************************************)
(* The SSA programs of the model.                                          *)
(*                                                                         *)
(* ProgWeb:                                                                *)
(*   func handler(r *web.Request, d *db.DB, w web.Writer) {                *)
(*     t0 := r.FormValue("id"); d.Query("SELECT" + t0)                     *)
(*     d.Query(string("SELECT" + "id"))                                    *)
(*     ext.Exec(ext.Escape(t0)); ext.Exec(ext.Getenv("id"))                *)
(*     w.Write(t0, "id"); helper(t0, d)                                    *)
(*     ext.Exec(t0, "SELECT" + t0); ext.Exec(nilRequest) }                *)
(*   func helper(q string, d *db.DB) { d.Query(q) }                        *)
(***************************************************************************)
ProgWeb ==
  [name |-> "web",
   funcs |->
     [FormValue |-> Func("FormValue", "web", ReqP, <<>>, <<>>),
      Query |-> Func("Query", "db", DBP, <<>>, <<>>),
      Exec |-> Func("Exec", "ext", NoType, <<>>, <<>>),
      Escape |-> Func("Escape", "ext", NoType, <<>>, <<>>),
      Getenv |-> Func("Getenv", "ext", NoType, <<>>, <<>>),
      handler |-> Func("handler", "app", NoType, <<"h_r", "h_d", "h_w">>,
                       << <<"h_t0", "h_t1", "h_c1", "h_k2", "h_k3", "h_c2", "h_t2", "h_c3",
                            "h_e", "h_c4", "h_c5", "h_c6", "h_c7", "h_c8", "h_ret">> >>),
      helper |-> Func("helper", "app", NoType, <<"hp_q", "hp_d">>, << <<"hp_c1", "hp_ret">> >>)],
   vals |->
     [k_id |-> Const(StrT), k_sel |-> Const(StrT), k_nil |-> Const(ReqP),
      h_r |-> Param(ReqP), h_d |-> Param(DBP), h_w |-> Param(WriterT),
      h_t0 |-> StaticCall("FormValue", <<"h_r", "k_id">>, StrT),
      h_t1 |-> BinOp("k_sel", "h_t0"),
      h_c1 |-> StaticCall("Query", <<"h_d", "h_t1">>, StrT),
      h_k2 |-> BinOp("k_sel", "k_id"),
      h_k3 |-> Unary("Convert", "h_k2"),
      h_c2 |-> StaticCall("Query", <<"h_d", "h_k3">>, StrT),
      h_t2 |-> StaticCall("Escape", <<"h_t0">>, StrT),
      h_c3 |-> StaticCall("Exec", <<"h_t2">>, StrT),
      h_e |-> StaticCall("Getenv", <<"k_id">>, StrT),
      h_c4 |-> StaticCall("Exec", <<"h_e">>, StrT),
      h_c5 |-> InvokeCall("h_w", "Write", <<"h_t0", "k_id">>),
      h_c6 |-> StaticCall("helper", <<"h_t0", "h_d">>, StrT),
      h_c7 |-> StaticCall("Exec", <<"h_t0", "h_t1">>, StrT),
      h_c8 |-> StaticCall("Exec", <<"k_nil">>, StrT),
      h_ret |-> Return(<<>>),
      hp_q |-> Param(StrT), hp_d |-> Param(DBP),
      hp_c1 |-> StaticCall("Query", <<"hp_d", "hp_q">>, StrT),
      hp_ret |-> Return(<<>>)],
   order |-> <<"handler", "helper", "FormValue", "Query", "Exec", "Escape", "Getenv">>,
   bodies |-> {"handler", "helper"},
   externs |-> <<"FormValue", "Query", "Exec", "Escape", "Getenv">>,
   dispatch |-> [x \in {} |-> <<>>],
   roots |-> {"handler", "helper", NoFn}]

(***************************************************************************)
(* ProgStruct:                                                             *)
(*   func local(r *web.Request) {                                          *)
(*     t0 := r.FormValue("id")                                             *)
(*     c := &Conf{}; c.Val = t0; c.Name = "id"                             *)
(*     ext.Exec(c.Val); ext.Exec(c.Name)                                   *)
(*     w := clean(t0); ext.Exec(w.Val); ext.Exec(w)                        *)
(*     p, _ := ext.Parse(t0); ext.Exec(p.Addr)                             *)
(*     m := mk(); ext.Exec(m.Val) }                                        *)
(*   func clean(s string) *Conf { c := new(Conf); c.Val = s; return c }    *)
(*   func mk() *Conf { c := new(Conf); c.Val = ext.Getenv("id"); return c }*)
(*   func stray(q *web.Request) { ext.Exec(q) }   (no call-graph node)     *)
(***************************************************************************)
ProgStruct ==
  [name |-> "struct",
   funcs |->
     [FormValue |-> Func("FormValue", "web", ReqP, <<>>, <<>>),
      Exec |-> Func("Exec", "ext", NoType, <<>>, <<>>),
      Getenv |-> Func("Getenv", "ext", NoType, <<>>, <<>>),
      Parse |-> Func("Parse", "ext", NoType, <<>>, <<>>),
      local |-> Func("local", "app", NoType, <<"l_r">>,
                     << <<"l_t0", "l_c", "l_fa0", "l_st0", "l_fa1", "l_st1",
                          "l_fa0r", "l_ld0", "l_c1", "l_fa1r", "l_ld1", "l_c2",
                          "l_w", "l_wf", "l_wl", "l_c3", "l_c4",
                          "l_p", "l_p0", "l_pf", "l_pl", "l_c5",
                          "l_m", "l_mf", "l_ml", "l_c6", "l_ret">> >>),
      clean |-> Func("clean", "app", NoType, <<"cl_s">>, << <<"cl_c", "cl_fa", "cl_st", "cl_ret">> >>),
      mk |-> Func("mk", "app", NoType, <<>>, << <<"mk_c", "mk_e", "mk_fa", "mk_st", "mk_ret">> >>),
      stray |-> Func("stray", "app", NoType, <<"s_q">>, << <<"s_c1", "s_ret">> >>)],
   vals |->
     [k_id |-> Const(StrT),
      l_r |-> Param(ReqP),
      l_t0 |-> StaticCall("FormValue", <<"l_r", "k_id">>, StrT),
      l_c |-> Alloc(ConfP),
      l_fa0 |-> FieldAddr("l_c", 0), l_st0 |-> Store("l_fa0", "l_t0"),
      l_fa1 |-> FieldAddr("l_c", 1), l_st1 |-> Store("l_fa1", "k_id"),
      l_fa0r |-> FieldAddr("l_c", 0), l_ld0 |-> Unary("UnOp", "l_fa0r"),
      l_c1 |-> StaticCall("Exec", <<"l_ld0">>, StrT),
      l_fa1r |-> FieldAddr("l_c", 1), l_ld1 |-> Unary("UnOp", "l_fa1r"),
      l_c2 |-> StaticCall("Exec", <<"l_ld1">>, StrT),
      l_w |-> StaticCall("clean", <<"l_t0">>, ConfP),
      l_wf |-> FieldAddr("l_w", 0), l_wl |-> Unary("UnOp", "l_wf"),
      l_c3 |-> StaticCall("Exec", <<"l_wl">>, StrT),
      l_c4 |-> StaticCall("Exec", <<"l_w">>, StrT),
      l_p |-> StaticCall("Parse", <<"l_t0">>, StrT),
      l_p0 |-> Extract("l_p", 0, AddrP),
      l_pf |-> FieldAddr("l_p0", 0), l_pl |-> Unary("UnOp", "l_pf"),
      l_c5 |-> StaticCall("Exec", <<"l_pl">>, StrT),
      l_m |-> StaticCall("mk", <<>>, ConfP),
      l_mf |-> FieldAddr("l_m", 0), l_ml |-> Unary("UnOp", "l_mf"),
      l_c6 |-> StaticCall("Exec", <<"l_ml">>, StrT),
      l_ret |-> Return(<<>>),
      cl_s |-> Param(StrT), cl_c |-> Alloc(ConfP),
      cl_fa |-> FieldAddr("cl_c", 0), cl_st |-> Store("cl_fa", "cl_s"),
      cl_ret |-> Return(<<"cl_c">>),
      mk_c |-> Alloc(ConfP), mk_e |-> StaticCall("Getenv", <<"k_id">>, StrT),
      mk_fa |-> FieldAddr("mk_c", 0), mk_st |-> Store("mk_fa", "mk_e"),
      mk_ret |-> Return(<<"mk_c">>),
      s_q |-> Param(ReqP), s_c1 |-> StaticCall("Exec", <<"s_q">>, StrT),
      s_ret |-> Return(<<>>)],
   order |-> <<"local", "clean", "mk", "stray", "FormValue", "Exec", "Getenv", "Parse">>,
   bodies |-> {"local", "clean", "mk"},
   externs |-> <<"FormValue", "Exec", "Getenv", "Parse">>,
   dispatch |-> [x \in {} |-> <<>>],
   roots |-> {"local", "stray", "Parse"}]

(***************************************************************************)
(* ProgLoop:                                                               *)
(*   func run(r *web.Request, n, m *Node) {                                *)
(*     t0 := r.FormValue("id")                                             *)
(*     emit(drop(t0)); emit(t0)                                            *)
(*     p := n; for ... { for ... { p = m } }     (two phis, each an edge   *)
(*                                                of the other)            *)
(*     ext.Exec(p.Next.Next.Val)                                           *)
(*     v := "id"; for ... { for ... { v = "SELECT" } }                     *)
(*     ext.Exec(v)                                                         *)
(*     func() { ext.Exec(t0) }() }                                         *)
(*   func emit(q string) { ext.Exec(q); emit(q) }                          *)
(*   func drop(s string) string { return "id" }                            *)
(***************************************************************************)
ProgLoop ==
  [name |-> "loop",
   funcs |->
     [FormValue |-> Func("FormValue", "web", ReqP, <<>>, <<>>),
      Exec |-> Func("Exec", "ext", NoType, <<>>, <<>>),
      run |-> Func("run", "app", NoType, <<"g_r", "g_n", "g_m">>,
                   << <<"g_t0", "g_d", "g_c1", "g_c2">>,
                      <<"g_p", "g_v">>, <<"g_p2", "g_v2">>,
                      <<"g_f1", "g_u1", "g_f2", "g_u2", "g_f3", "g_u3", "g_c3", "g_c4",
                        "g_mc", "g_c5", "g_ret">> >>),
      emit |-> Func("emit", "app", NoType, <<"e_q">>, << <<"e_c1", "e_c2", "e_ret">> >>),
      drop |-> Func("drop", "app", NoType, <<"d_s">>, << <<"d_ret">> >>),
      run1 |-> Closure("run$1", "app", <<"c_fv">>, << <<"c_c1", "c_ret">> >>, "run")],
   vals |->
     [k_id |-> Const(StrT), k_sel |-> Const(StrT),
      g_r |-> Param(ReqP), g_n |-> Param(NodeP), g_m |-> Param(NodeP),
      g_t0 |-> StaticCall("FormValue", <<"g_r", "k_id">>, StrT),
      g_d |-> StaticCall("drop", <<"g_t0">>, StrT),
      g_c1 |-> StaticCall("emit", <<"g_d">>, StrT),
      g_c2 |-> StaticCall("emit", <<"g_t0">>, StrT),
      g_p |-> Phi(<<"g_n", "g_p2">>), g_p2 |-> Phi(<<"g_p", "g_m">>),
      g_v |-> Phi(<<"k_id", "g_v2">>), g_v2 |-> Phi(<<"g_v", "k_sel">>),
      g_f1 |-> FieldAddr("g_p", 0), g_u1 |-> Unary("UnOp", "g_f1"),
      g_f2 |-> FieldAddr("g_u1", 0), g_u2 |-> Unary("UnOp", "g_f2"),
      g_f3 |-> FieldAddr("g_u2", 1), g_u3 |-> Unary("UnOp", "g_f3"),
      g_c3 |-> StaticCall("Exec", <<"g_u3">>, StrT),
      g_c4 |-> StaticCall("Exec", <<"g_v">>, StrT),
      g_mc |-> MakeClosure("run1", <<"g_t0">>),
      g_c5 |-> StaticCall("g_mc", <<>>, StrT),
      g_ret |-> Return(<<>>),
      e_q |-> Param(StrT),
      e_c1 |-> StaticCall("Exec", <<"e_q">>, StrT),
      e_c2 |-> StaticCall("emit", <<"e_q">>, StrT),
      e_ret |-> Return(<<>>),
      d_s |-> Param(StrT), d_ret |-> Return(<<"k_id">>),
      c_fv |-> FreeVar(StrT),
      c_c1 |-> StaticCall("Exec", <<"c_fv">>, StrT),
      c_ret |-> Return(<<>>)],
   order |-> <<"run", "emit", "drop", "run1", "FormValue", "Exec">>,
   bodies |-> {"run", "emit", "drop", "run1"},
   externs |-> <<"FormValue", "Exec">>,
   dispatch |-> [x \in {} |-> <<>>],
   roots |-> {"run", "emit"}]

(***************************************************************************)
(* ProgFlow:                                                               *)
(*   var cached string                                                     *)
(*   type Sender interface { Send(tag, body string) }                      *)
(*   func (m *mail) Send(tag, body string) {                               *)
(*     ext.Exec(body); ext.Exec(tag); ext.Exec(cached)                     *)
(*     ext.Exec(conf.Val) }                                                *)
(*   func flow(r *web.Request, s Sender) {                                 *)
(*     t0 := r.FormValue("id")                                             *)
(*     s.Send("id", t0)                 (interface call, resolved to Send) *)
(*     ext.Exec(env(t0) + t0)                                              *)
(*     cached = t0; ext.Exec(cached); conf.Val = t0                        *)
(*     ext.Exec(env("id"))                                                 *)
(*     w := pick(t0); ext.Exec(w.Val) }                                    *)
(*   func env(s string) string { return ext.Getenv("id") }                 *)
(*   func pick(s string) *Conf {                                           *)
(*     c := &Conf{Val: "id"}; if ... { c = &Conf{Val: s} }; return c }     *)
(***************************************************************************)
ProgFlow ==
  [name |-> "flow",
   funcs |->
     [FormValue |-> Func("FormValue", "web", ReqP, <<>>, <<>>),
      Exec |-> Func("Exec", "ext", NoType, <<>>, <<>>),
      Getenv |-> Func("Getenv", "ext", NoType, <<>>, <<>>),
      flow |-> Func("flow", "app", NoType, <<"f_r", "f_s">>,
                    << <<"f_t0", "f_c1", "f_e", "f_b", "f_c2", "f_st", "f_gl", "f_c3",
                         "f_gfa", "f_gst", "f_k", "f_c4", "f_w", "f_wf", "f_wl", "f_c5",
                         "f_ret">> >>),
      Send |-> Func("Send", "app", Ptr(Named("app", "mail")), <<"n_m", "n_tag", "n_body">>,
                    << <<"n_c1", "n_c2", "n_gl", "n_c3", "n_gfa", "n_gfl", "n_c4", "n_ret">> >>),
      env |-> Func("env", "app", NoType, <<"v_s">>, << <<"v_g", "v_ret">> >>),
      pick |-> Func("pick", "app", NoType, <<"p_s">>,
                    << <<"p_a1", "p_f1", "p_st1">>, <<"p_a2", "p_f2", "p_st2">>,
                       <<"p_phi", "p_ret">> >>)],
   vals |->
     [k_id |-> Const(StrT),
      v_cached |-> Global("app", "cached"), v_conf |-> Global("app", "conf"),
      f_r |-> Param(ReqP), f_s |-> Param(Named("app", "Sender")),
      f_t0 |-> StaticCall("FormValue", <<"f_r", "k_id">>, StrT),
      f_c1 |-> InvokeCall("f_s", "Send", <<"k_id", "f_t0">>),
      f_e |-> StaticCall("env", <<"f_t0">>, StrT),
      f_b |-> BinOp("f_e", "f_t0"),
      f_c2 |-> StaticCall("Exec", <<"f_b">>, StrT),
      f_st |-> Store("v_cached", "f_t0"),
      f_gl |-> Unary("UnOp", "v_cached"),
      f_c3 |-> StaticCall("Exec", <<"f_gl">>, StrT),
      f_gfa |-> FieldAddr("v_conf", 0), f_gst |-> Store("f_gfa", "f_t0"),
      f_k |-> StaticCall("env", <<"k_id">>, StrT),
      f_c4 |-> StaticCall("Exec", <<"f_k">>, StrT),
      f_w |-> StaticCall("pick", <<"f_t0">>, ConfP),
      f_wf |-> FieldAddr("f_w", 0), f_wl |-> Unary("UnOp", "f_wf"),
      f_c5 |-> StaticCall("Exec", <<"f_wl">>, StrT),
      f_ret |-> Return(<<>>),
      n_m |-> Param(Ptr(Named("app", "mail"))), n_tag |-> Param(StrT), n_body |-> Param(StrT),
      n_c1 |-> StaticCall("Exec", <<"n_body">>, StrT),
      n_c2 |-> StaticCall("Exec", <<"n_tag">>, StrT),
      n_gl |-> Unary("UnOp", "v_cached"),
      n_c3 |-> StaticCall("Exec", <<"n_gl">>, StrT),
      n_gfa |-> FieldAddr("v_conf", 0), n_gfl |-> Unary("UnOp", "n_gfa"),
      n_c4 |-> StaticCall("Exec", <<"n_gfl">>, StrT),
      n_ret |-> Return(<<>>),
      v_s |-> Param(StrT),
      v_g |-> StaticCall("Getenv", <<"k_id">>, StrT),
      v_ret |-> Return(<<"v_g">>),
      p_s |-> Param(StrT),
      p_a1 |-> Alloc(ConfP), p_f1 |-> FieldAddr("p_a1", 0), p_st1 |-> Store("p_f1", "k_id"),
      p_a2 |-> Alloc(ConfP), p_f2 |-> FieldAddr("p_a2", 0), p_st2 |-> Store("p_f2", "p_s"),
      p_phi |-> Phi(<<"p_a1", "p_a2">>),
      p_ret |-> Return(<<"p_phi">>)],
   order |-> <<"flow", "Send", "env", "pick", "FormValue", "Exec", "Getenv">>,
   bodies |-> {"flow", "Send", "env", "pick"},
   externs |-> <<"FormValue", "Exec", "Getenv">>,
   dispatch |-> [x \in {"f_c1"} |-> <<"Send">>],
   roots |-> {"flow"}]

Programs == {Linked(ProgWeb), Linked(ProgStruct), Linked(ProgLoop), Linked(ProgFlow)}

(***************************************************************************)
(* The configurations of the model.                                        *)
(***************************************************************************)
SrcRequest == Source("web", "Request", TRUE, FALSE)
SrcGetenv == Source("ext", "Getenv", FALSE, TRUE)
SrcGetenvType == Source("ext", "Getenv", FALSE, FALSE)
SrcConf == Source("app", "Conf", FALSE, FALSE)

SinkQuery == Sink("db", "DB", "Query", TRUE, <<1>>)
SinkQueryRecv == Sink("db", "DB", "Query", TRUE, <<0>>)
SinkQueryNeg == Sink("db", "DB", "Query", TRUE, <<-1, 1>>)
SinkQueryFar == Sink("db", "DB", "Query", TRUE, <<1, 7>>)
SinkExec == Sink("ext", "", "Exec", FALSE, <<>>)
SinkWrite == Sink("web", "Writer", "Write", FALSE, <<0>>)
SinkWritePtr == Sink("web", "Writer", "Write", TRUE, <<1>>)
SinkQueryVal == Sink("db", "DB", "Query", FALSE, <<1>>)

SanEscape == Sanitizer("ext", "", "Escape", FALSE)
SanParse == Sanitizer("ext", "", "Parse", FALSE)
SanClean == Sanitizer("app", "", "clean", FALSE)
SanGetenv == Sanitizer("ext", "", "Getenv", FALSE)

SourceLists == {<<>>, <<SrcRequest>>, <<SrcRequest, SrcGetenv>>}
SinkLists == {<<SinkQuery, SinkExec>>, <<SinkQuery, SinkExec, SinkQueryFar>>, <<SinkExec, SinkQueryNeg>>,
              <<SinkWrite, SinkWritePtr, SinkQueryVal>>}
SanitizerLists == {<<>>, <<SanEscape, SanParse>>, <<SanClean, SanGetenv>>}

Configs == [Sources : SourceLists, Sinks : SinkLists, Sanitizers : SanitizerLists]

\* the declarations a configuration is extended with
ExtraSources == {SrcRequest, SrcGetenv, SrcGetenvType, SrcConf}
ExtraSinks == {SinkQuery, SinkQueryRecv, SinkExec, SinkWrite, SinkWritePtr}

\* the lists of at most n elements of S
RECURSIVE SeqsUpTo(_, _)
SeqsUpTo(S, n) == IF n = 0 THEN {<<>>}
                  ELSE LET shorter == SeqsUpTo(S, n - 1)
                       IN shorter \cup {Append(q, x) : q \in shorter, x \in S}

(***************************************************************************)
(* The state machine: one analyzer, Analyze called again and again on the  *)
(* same program and roots; reports is the set of the lists it returned.    *)
(***************************************************************************)
VARIABLES prog, srcFuncs, a, pc, i, results, reports

\* One PackageAnalysisCache and the goroutines that call its CallGraph():
\* cache is the receiver c, ssa its field, callGraphOnce the sync.Once (done flag
\* and mutex holder), callGraph the field (0 is nil, n is the n-th graph that
\* cha.CallGraph built), cpc the position of each goroutine, ncalls the calls
\* it has started, got the list of the value its last call returned, returned every value
\* a call returned, builds the executions of cha.CallGraph.
VARIABLES cache, ssa, callGraphOnce, callGraph, cpc, ncalls, got, returned, builds

\* One call of a function of the oracle from outside: asked is the call,
\* answer what it returned, with the record of the query.
VARIABLES asked, answer

avars == <<prog, srcFuncs, a, pc, i, results, reports>>
cvars == <<cache, ssa, callGraphOnce, callGraph, cpc, ncalls, got, returned, builds>>
ovars == <<asked, answer>>
vars == <<avars, cvars, ovars>>

P == prog
\* the analyzer and the program, no activation of the oracle in progress
Cx == [a |-> a, p |-> P, nest |-> 0, top |-> NoActivation]

\* the orders in which cha.CallGraph can visit the functions of the program
FuncOrders(p) == {o \o p.externs : o \in Orders(p.bodies)}

\* no call of the oracle yet
NoQuery == [proc |-> "", v |-> NilV, fn |-> NoFn, depth |-> 0, seen |-> {}, order |-> <<>>]
NothingAsked == asked = NoQuery /\ answer = R(FALSE, NewVisited)

\* the goroutines that share the cache
Callers == 1 .. NumCallers
NoCaller == 0
NilGraph == 0

\* &PackageAnalysisCache{ssa: ssaResult}: zero Once, nil callGraph
NewPackageAnalysisCache ==
  /\ callGraphOnce = [done |-> FALSE, m |-> NoCaller]
  /\ callGraph = NilGraph
  /\ cpc = [g \in Callers |-> "idle"]
  /\ ncalls = [g \in Callers |-> 0]
  /\ got = [g \in Callers |-> <<>>]
  /\ returned = {}
  /\ builds = 0

Init ==
  /\ prog \in Programs
  /\ srcFuncs \in SeqsUpTo(prog.roots, MaxRoots)
  /\ \E config \in Configs : a = New(config)
  /\ pc = "idle"
  /\ i = 0
  /\ results = <<>>
  /\ reports = {}
  /\ cache = "cache" /\ ssa = "ssa" /\ NewPackageAnalysisCache
  /\ NothingAsked

\* Analyze with len(srcFuncs) == 0: return nil
AnalyzeEmpty ==
  /\ pc = "idle"
  /\ Len(srcFuncs) = 0
  /\ reports' = reports \cup {<<>>}
  /\ UNCHANGED <<prog, srcFuncs, a, pc, i, results, cvars, ovars>>

\* Analyze: a.callGraph = cha.CallGraph(prog); var results []Result
AnalyzeBegin ==
  /\ pc = "idle"
  /\ Len(srcFuncs) > 0
  /\ \E forder \in FuncOrders(P) : a' = [a EXCEPT !.callGraph = CallGraph(P, forder)]
  /\ results' = <<>>
  /\ i' = 1
  /\ pc' = "scan"
  /\ UNCHANGED <<prog, srcFuncs, reports, cvars, ovars>>

\* one iteration of "for _, fn := range srcFuncs": results = append(results, ...)
AnalyzeFunction ==
  /\ pc = "scan" /\ i <= Len(srcFuncs)
  /\ \E out \in analyzeFunctionSinks(Cx, srcFuncs[i]) :
        /\ ~out.panic
        /\ results' = results \o out.results
  /\ i' = i + 1
  /\ UNCHANGED <<prog, srcFuncs, a, pc, reports, cvars, ovars>>

\* the iteration indexes call.Call.Args out of range: Analyze does not return
AnalyzePanic ==
  /\ pc = "scan" /\ i <= Len(srcFuncs)
  \* "if idx < len(call.Call.Args)" leaves only the negative positions out of range
  /\ \E k \in DOMAIN a.sinks : \E j \in DOMAIN a.sinks[k].CheckArgs : a.sinks[k].CheckArgs[j] < 0
  /\ \E out \in analyzeFunctionSinks(Cx, srcFuncs[i]) : out.panic
  /\ pc' = "panic"
  /\ UNCHANGED <<prog, srcFuncs, a, i, results, reports, cvars, ovars>>

\* return results
AnalyzeReturn ==
  /\ pc = "scan" /\ i > Len(srcFuncs)
  /\ reports' = reports \cup {results}
  /\ pc' = "idle"
  /\ UNCHANGED <<prog, srcFuncs, a, i, results, cvars, ovars>>

Next == AnalyzeEmpty \/ AnalyzeBegin \/ AnalyzeFunction \/ AnalyzePanic \/ AnalyzeReturn

Spec == Init /\ [][Next]_vars

(***************************************************************************)
(* PackageAnalysisCache.CallGraph() called from several goroutines.        *)
(* sync.Once.Do is the standard library's: a load of done (fast path),     *)
(* then under the mutex a second test of done, the call of f, the store of *)
(* done and the unlock.                                                    *)
(***************************************************************************)
\* a Do that also gives up when another goroutine holds the mutex
doFastOrBusy(once) == once.done \/ once.m # NoCaller

\* Do: "if o.done.Load() == 0 { o.doSlow(f) }"
doFast(once) == once.done

\* a doSlow that does not test done again
doSlowSkipNever(once) == FALSE

\* doSlow under the mutex: "if o.done.Load() == 0 { defer o.done.Store(1); f() }"
doSlowSkip(once) == once.done

\* the test without its last disjunct
noProgramUnlessFirstNil(s, fns) == s = "nil" \/ Len(fns) = 0

\* c.ssa == nil || len(c.ssa.SrcFuncs) == 0 || c.ssa.SrcFuncs[0] == nil
noProgram(s, fns) == s = "nil" \/ Len(fns) = 0 \/ fns[1] = NoFn

CacheInit ==
  /\ prog \in Programs
  /\ srcFuncs \in SeqsUpTo(prog.roots, 1)
  /\ a = New([Sources |-> <<>>, Sinks |-> <<>>, Sanitizers |-> <<>>])
  /\ pc = "idle"
  /\ i = 0
  /\ results = <<>>
  /\ reports = {}
  /\ cache \in {"nil", "cache"}
  /\ ssa \in {"nil", "ssa"}
  /\ NewPackageAnalysisCache
  /\ NothingAsked

\* a call on the nil receiver: "if c == nil { return nil }"
CallGraphNil(g) ==
  /\ cpc[g] = "idle" /\ ncalls[g] < MaxCalls
  /\ cache = "nil"
  /\ ncalls' = [ncalls EXCEPT ![g] = @ + 1]
  /\ got' = [got EXCEPT ![g] = <<NilGraph>>]
  /\ returned' = returned \cup {NilGraph}
  /\ UNCHANGED <<avars, ovars, cache, ssa, callGraphOnce, callGraph, cpc, builds>>

\* a call on a cache: on to c.callGraphOnce.Do
CallGraphEnter(g) ==
  /\ cpc[g] = "idle" /\ ncalls[g] < MaxCalls
  /\ cache # "nil"
  /\ ncalls' = [ncalls EXCEPT ![g] = @ + 1]
  /\ cpc' = [cpc EXCEPT ![g] = "do"]
  /\ UNCHANGED <<avars, ovars, cache, ssa, callGraphOnce, callGraph, got, returned, builds>>

\* Do: done already, return from Do; otherwise doSlow, waiting for the mutex
OnceDo(g) ==
  /\ cpc[g] = "do"
  /\ cpc' = [cpc EXCEPT ![g] = IF doFast(callGraphOnce) THEN "return" ELSE "lock"]
  /\ UNCHANGED <<avars, ovars, cache, ssa, callGraphOnce, callGraph, ncalls, got, returned, builds>>

\* doSlow: o.m.Lock() once the mutex is free, then the second test of done
OnceLock(g) ==
  /\ cpc[g] = "lock"
  /\ callGraphOnce.m = NoCaller
  /\ callGraphOnce' = [callGraphOnce EXCEPT !.m = g]
  /\ cpc' = [cpc EXCEPT ![g] = IF doSlowSkip(callGraphOnce) THEN "unlock" ELSE "f"]
  /\ UNCHANGED <<avars, ovars, cache, ssa, callGraph, ncalls, got, returned, builds>>

\* the function passed to Do, to its end: the graph is built and assigned
\* unless there is no program to build it from
OnceFunc(g) ==
  /\ cpc[g] = "f"
  /\ IF noProgram(ssa, srcFuncs)
     THEN UNCHANGED <<callGraph, builds>>
     ELSE /\ builds' = builds + 1
          /\ callGraph' = builds + 1
  /\ cpc' = [cpc EXCEPT ![g] = "store"]
  /\ UNCHANGED <<avars, ovars, cache, ssa, callGraphOnce, ncalls, got, returned>>

\* deferred o.done.Store(1)
OnceStore(g) ==
  /\ cpc[g] = "store"
  /\ callGraphOnce' = [callGraphOnce EXCEPT !.done = TRUE]
  /\ cpc' = [cpc EXCEPT ![g] = "unlock"]
  /\ UNCHANGED <<avars, ovars, cache, ssa, callGraph, ncalls, got, returned, builds>>

\* a doSlow that returns with the mutex held
unlockedNever(g) == [m |-> g, pc |-> "return"]

\* the next position of a goroutine that leaves doSlow and the mutex it leaves
unlocked(g) == [m |-> NoCaller, pc |-> "return"]

\* deferred o.m.Unlock()
OnceUnlock(g) ==
  /\ cpc[g] = "unlock"
  /\ callGraphOnce' = [callGraphOnce EXCEPT !.m = unlocked(g).m]
  /\ cpc' = [cpc EXCEPT ![g] = unlocked(g).pc]
  /\ UNCHANGED <<avars, ovars, cache, ssa, callGraph, ncalls, got, returned, builds>>

\* return c.callGraph
CallGraphReturn(g) ==
  /\ cpc[g] = "return"
  /\ got' = [got EXCEPT ![g] = <<callGraph>>]
  /\ returned' = returned \cup {callGraph}
  /\ cpc' = [cpc EXCEPT ![g] = "idle"]
  /\ UNCHANGED <<avars, ovars, cache, ssa, callGraphOnce, callGraph, ncalls, builds>>

\* a step of a call in progress
CallGraphStep(g) ==
  \/ OnceDo(g) \/ OnceLock(g) \/ OnceFunc(g) \/ OnceStore(g) \/ OnceUnlock(g)
  \/ CallGraphReturn(g)

CacheNext ==
  \E g \in Callers : CallGraphNil(g) \/ CallGraphEnter(g) \/ CallGraphStep(g)

CacheSpec == CacheInit /\ [][CacheNext]_vars

\* every goroutine that is inside CallGraph() keeps running
CacheFairSpec == CacheSpec /\ \A g \in Callers : WF_vars(CallGraphStep(g))

(***************************************************************************)
(* The functions of the oracle called on the values of a program, with the *)
(* call graph that Analyze built.                                          *)
(***************************************************************************)
\* the queries the sink scanner can start: an argument of a call instruction,
\* in the function that holds the call
ScannerQueries ==
  UNION {{<<Val(P, call).args[j], P.parent[call]>> : j \in DOMAIN Val(P, call).args} :
           call \in {x \in DOMAIN P.vals : P.vals[x].kind = "Call" /\ P.parent[x] # NoFn}}

\* every value an instruction defines, with its function
FnValues == {<<v, P.parent[v]>> : v \in {x \in DOMAIN P.vals : P.parent[x] # NoFn}}

\* the depth from which a query reaches the bound within the activations the
\* model follows
DeepStart == maxTaintDepth - 10

\* the context with the in-edges of fn in the order o
WithInEdges(fn, o) ==
  [Cx EXCEPT !.a.callGraph.Nodes[fn].In = [j \in DOMAIN @ |-> @[o[j]]]]

QueryInit ==
  /\ prog \in Programs
  /\ srcFuncs = <<>>
  /\ \E srcs \in SourceLists, sans \in SanitizerLists, forder \in FuncOrders(prog) :
        a = [New([Sources |-> srcs, Sinks |-> <<SinkExec>>, Sanitizers |-> sans])
               EXCEPT !.callGraph = CallGraph(prog, forder)]
  /\ pc = "idle"
  /\ i = 0
  /\ results = <<>>
  /\ reports = {}
  /\ cache = "cache" /\ ssa = "ssa" /\ NewPackageAnalysisCache
  /\ NothingAsked

\* a.isTainted(arg, fn, make(map[ssa.Value]bool), 0), as analyzeFunctionSinks
\* calls it
AskScanner ==
  /\ asked = NoQuery
  /\ \E q \in ScannerQueries :
        /\ asked' = [NoQuery EXCEPT !.proc = "isTainted", !.v = q[1], !.fn = q[2]]
        /\ answer' = Oracle("isTainted", <<Cx, q[1], q[2], NewVisited, 0>>)
  /\ UNCHANGED <<avars, cvars>>

\* isTainted as the oracle calls it: on any value or nil, with the value in
\* the visited map or not, at a depth near or above the bound
AskInner ==
  /\ asked = NoQuery
  /\ \E q \in FnValues \cup ScannerQueries \cup {<<NilV, NoFn>>},
        depth \in {0, DeepStart, maxTaintDepth, maxTaintDepth + 1} :
      \E seen \in {{}, {q[1]}} :
        /\ asked' = [NoQuery EXCEPT !.proc = "isTainted", !.v = q[1], !.fn = q[2],
                                     !.depth = depth, !.seen = seen]
        /\ answer' = Oracle("isTainted", <<Cx, q[1], q[2], [NewVisited EXCEPT !.seen = seen], depth>>)
  /\ UNCHANGED <<avars, cvars>>

\* isParameterTainted on a parameter of a function with in-edges, the edges
\* in any order
AskParameter ==
  /\ asked = NoQuery
  /\ \E fn \in DOMAIN a.callGraph.Nodes :
        \E j \in DOMAIN FuncOf(P, fn).params, o \in Orders(DOMAIN a.callGraph.Nodes[fn].In) :
          /\ asked' = [NoQuery EXCEPT !.proc = "isParameterTainted", !.v = FuncOf(P, fn).params[j],
                                       !.fn = fn, !.order = o]
          /\ answer' = Oracle("isParameterTainted",
                               <<WithInEdges(fn, o), FuncOf(P, fn).params[j], fn, NewVisited, 0>>)
  /\ UNCHANGED <<avars, cvars>>

QueryNext == AskScanner \/ AskInner \/ AskParameter

QuerySpec == QueryInit /\ [][QueryNext]_vars

(***************************************************************************)
(* Vocabulary of the properties.                                           *)
(***************************************************************************)
\* the function whose blocks hold the instruction
ContainingFn(p, id) == p.parent[id]

\* the call instructions of a program
CallsOf(p) == {id \in DOMAIN p.vals : p.vals[id].kind = "Call"}

\* the findings of a list
FindingsOf(rs) == {rs[j] : j \in DOMAIN rs}

\* every finding emitted so far: by the run in progress and by the finished runs
Findings == FindingsOf(results) \cup UNION {FindingsOf(rep) : rep \in reports}

\* the number of findings of a list at a call instruction
CountAt(rs, call) == Cardinality({j \in DOMAIN rs : rs[j].SinkPos = call})

\* the number of times a function occurs in a list of functions
Occurrences(fs, fn) == Cardinality({j \in DOMAIN fs : fs[j] = fn})

(***************************************************************************)
(* C9                                                                      *)
(***************************************************************************)
\* C9: every finding carries a non-empty call path whose last element is the
\* function containing the sink call, and buildPath answers with such a path
\* for every function and every call graph: the absent graph before the first
\* run, a function without a node, a function with in-edges.
C9_PathEndsAtSinkFunction ==
  /\ \A r \in Findings :
        Len(r.Path) >= 1 /\ r.Path[Len(r.Path)] = ContainingFn(P, r.SinkPos)
  /\ \A fn \in DOMAIN P.funcs :
        LET path == buildPath(Cx, fn) IN Len(path) >= 1 /\ path[Len(path)] = fn

\* a returned finding in helper whose path was extended with the caller handler
C9_Witness ==
  \E rep \in reports : \E j \in DOMAIN rep :
     rep[j].SinkPos = "hp_c1" /\ rep[j].Path = <<"handler", "helper">>

(***************************************************************************)
(* C4                                                                      *)
(***************************************************************************)
RECURSIVE ConstantOnly(_, _)
\* a constant, or a binary operation / conversion of constants only
ConstantOnly(p, v) ==
  LET val == Val(p, v)
  IN CASE val.kind = "Const" -> TRUE
       [] val.kind = "BinOp" -> ConstantOnly(p, val.X) /\ ConstantOnly(p, val.Y)
       [] val.kind = "Convert" -> ConstantOnly(p, val.X)
       [] OTHER -> FALSE

\* C4: no finding is emitted at a sink call all of whose checked arguments are
\* constants or binary-op / conversion combinations of constants, whatever
\* sources are configured.
C4_ConstantArgsNoFinding ==
  \A r \in Findings :
     LET checked == CheckedArgs(r.Sink, Val(P, r.SinkPos).args)
     IN \E j \in DOMAIN checked : ~ConstantOnly(P, checked[j])

\* handler was scanned with ext.Exec a sink and *web.Request a source type: the
\* call on tainted data is reported, the calls on "SELECT" + "id" and on the
\* nil constant of type *web.Request are not
C4_Witness ==
  /\ prog.name = "web" /\ isSourceType(Cx, ReqP)
  /\ \E rep \in reports :
        /\ CountAt(rep, "h_c7") = 1
        /\ CountAt(rep, "h_c8") = 0
        /\ CountAt(rep, "h_c2") = 0

(***************************************************************************)
(* C2                                                                      *)
(***************************************************************************)
\* the static callee of the call is declared a sanitizer by the configuration
DeclaredSanitizer(c) ==
  LET callee == StaticCallee(P, Val(P, c))
      info == CalleeInfo(P, callee, "")
      sans == a.config.Sanitizers
  IN callee # NoFn /\ \E j \in DOMAIN sans :
        /\ sans[j].Package = info.pkg /\ sans[j].Method = info.methodName
        /\ sans[j].Receiver = info.receiverName
        /\ (sans[j].Receiver # "" => sans[j].Pointer = info.isPointer)

\* the static callee of the call is declared a function source by the configuration
DeclaredFuncSource(c) ==
  LET callee == StaticCallee(P, Val(P, c))
      f == FuncOf(P, callee)
      srcs == a.config.Sources
  IN callee # NoFn /\ \E j \in DOMAIN srcs :
        srcs[j].IsFunc /\ srcs[j].Package = f.pkg /\ srcs[j].Name = f.name

\* the calls whose static callee is both a configured sanitizer and a
\* configured function source
DualCalls == {c \in CallsOf(P) : DeclaredSanitizer(c) /\ DeclaredFuncSource(c)}

\* C2: the result of a call matching both a sanitizer and a function source is
\* not tainted, for isTainted in the function of the call and for
\* isCalleValueTainted at every call site of that function.
C2_SanitizerDominatesSource ==
  \A c \in DualCalls :
     LET callee == ContainingFn(P, c)
     IN /\ ~Oracle("isTainted", <<Cx, c, callee, NewVisited, 0>>).t
        /\ \A site \in CallsOf(P) :
              StaticCallee(P, Val(P, site)) = callee =>
                 ~Oracle("isCalleValueTainted", <<Cx, c, callee, site, ContainingFn(P, site), NewVisited, 0>>).t

\* ext.Getenv is sanitizer and source; local was scanned: the field stored from
\* r.FormValue is reported, the field mk stored from ext.Getenv is not
C2_Witness ==
  /\ prog.name = "struct" /\ "mk_e" \in DualCalls
  /\ \E rep \in reports : CountAt(rep, "l_c1") = 1 /\ CountAt(rep, "l_c6") = 0

(***************************************************************************)
(* C1                                                                      *)
(***************************************************************************)
\* the values a sanitizer call produces: the call result, a tuple element
\* extracted from it, the address of a field of either, the field read there
SanitizerResults == {c \in CallsOf(P) : DeclaredSanitizer(c)}
SanitizerElements ==
  SanitizerResults \cup
  {v \in DOMAIN P.vals : P.vals[v].kind = "Extract" /\ P.vals[v].Tuple \in SanitizerResults}
SanitizerFieldAddrs ==
  {v \in DOMAIN P.vals : P.vals[v].kind = "FieldAddr" /\ P.vals[v].X \in SanitizerElements}
SanitizerOutputs ==
  SanitizerElements \cup SanitizerFieldAddrs \cup
  {v \in DOMAIN P.vals : P.vals[v].kind = "UnOp" /\ P.vals[v].X \in SanitizerFieldAddrs}

\* C1: while a function is scanned, the oracle classifies every value a
\* sanitizer call of that function produces as not tainted, and no finding is emitted at a sink call
\* whose checked arguments are all such values.
C1_SanitizerOutputsNotTainted ==
  /\ (pc = "scan" /\ i <= Len(srcFuncs)) =>
        \A v \in {x \in SanitizerOutputs : ContainingFn(P, x) = srcFuncs[i]} :
           ~Oracle("isTainted", <<Cx, v, srcFuncs[i], NewVisited, 0>>).t
  /\ \A r \in Findings :
        LET checked == CheckedArgs(r.Sink, Val(P, r.SinkPos).args)
        IN \E j \in DOMAIN checked : checked[j] \notin SanitizerOutputs

(***************************************************************************)
(* C3                                                                      *)
(***************************************************************************)
\* the arguments at the check-args positions that are positions of the
\* argument vector, or every argument when check-args is empty
ArgsAtCheckedPositions(sink, args) ==
  IF Len(sink.CheckArgs) > 0
  THEN {args[sink.CheckArgs[j] + 1] :
          j \in {k \in DOMAIN sink.CheckArgs : sink.CheckArgs[k] >= 0 /\ sink.CheckArgs[k] < Len(args)}}
  ELSE {args[j] : j \in DOMAIN args}

\* the call matches a configured sink one of whose checked arguments the
\* oracle classifies tainted
TaintedSinkCall(fn, call) ==
  \E sr \in SinkCallResults(Cx, call) :
     sr.ok /\ \E x \in ArgsAtCheckedPositions(sr.sink, Val(P, call).args) :
                 Oracle("isTainted", <<Cx, x, fn, NewVisited, 0>>).t

\* the findings the step appends to the results of the run
Emitted == SubSeq(results', Len(results) + 1, Len(results'))

\* C3: the scan of a function emits exactly one finding for each of its call
\* instructions that matches a sink and has a tainted checked argument, and no
\* finding for its other call instructions.
C3_OneFindingPerTaintedSinkCall ==
  [][(pc = "scan" /\ i <= Len(srcFuncs)) =>
        \A call \in {c \in CallsOf(P) : ContainingFn(P, c) = srcFuncs[i]} :
           CountAt(Emitted, call) = IF TaintedSinkCall(srcFuncs[i], call) THEN 1 ELSE 0]_vars

(***************************************************************************)
(* C10                                                                     *)
(***************************************************************************)
\* C10: Analyze never aborts, and for an empty roots list it returns the empty
\* list without building a call graph.
C10_AnalyzeNeverAborts ==
  /\ pc # "panic"
  /\ Len(srcFuncs) = 0 =>
        a.callGraph = NoGraph /\ \A rep \in reports : rep = <<>>

(***************************************************************************)
(* C5 and C6                                                               *)
(***************************************************************************)
\* some scan of fn by the analyzer an returns a finding at the call, for some
\* iteration order of the sink table
MayReport(an, fn, call) ==
  \E out \in analyzeFunctionSinks([Cx EXCEPT !.a = an], fn) :
     ~out.panic /\ CountAt(out.results, call) >= 1

\* the analyzer of the configuration extended with one declaration, with the
\* call graph of the run
WithSource(s) ==
  [New([a.config EXCEPT !.Sources = Append(a.config.Sources, s)])
     EXCEPT !.callGraph = a.callGraph]
WithSink(s) ==
  [New([a.config EXCEPT !.Sinks = Append(a.config.Sinks, s)])
     EXCEPT !.callGraph = a.callGraph]

\* C5: every sink call with a finding in the run still yields a finding when
\* one more source is declared.
C5_SourceMonotonic ==
  \A r \in FindingsOf(results) : \A s \in ExtraSources :
     MayReport(WithSource(s), ContainingFn(P, r.SinkPos), r.SinkPos)

\* C6: every sink call with a finding in the run still yields a finding when
\* one more sink is declared.
C6_SinkMonotonic ==
  \A r \in FindingsOf(results) : \A s \in ExtraSinks :
     MayReport(WithSink(s), ContainingFn(P, r.SinkPos), r.SinkPos)

(***************************************************************************)
(* C7                                                                      *)
(***************************************************************************)
\* C7: the runs of Analyze on the same analyzer, program and roots return the
\* same set of findings.
C7_RunsAgree ==
  \A rep1, rep2 \in reports : FindingsOf(rep1) = FindingsOf(rep2)

ClashingSinks(config) ==
  \E j, k \in DOMAIN config.Sinks :
     /\ formatSinkKey(config.Sinks[j]) = formatSinkKey(config.Sinks[k])
     /\ config.Sinks[j].CheckArgs # config.Sinks[k].CheckArgs

ClashingSources(config) ==
  \E j, k \in DOMAIN config.Sources :
     /\ formatSourceKey(config.Sources[j]) = formatSourceKey(config.Sources[k])
     /\ config.Sources[j].IsFunc # config.Sources[k].IsFunc

\* C11: New fails with InvalidConfig on a configuration where two sinks share
\* a lookup key with different CheckArgs or two sources share a key with
\* different IsFunc flags: no analyzer is ever constructed from such a
\* configuration.
C11_ClashingConfigRejected ==
  ~(ClashingSinks(a.config) \/ ClashingSources(a.config))

(***************************************************************************)
(* The memoized call graph of PackageAnalysisCache.                        *)
(***************************************************************************)
\* the cache exists and holds an SSA result whose first source function exists
ValidSSA ==
  /\ cache = "cache" /\ ssa = "ssa"
  /\ Len(srcFuncs) > 0 /\ srcFuncs[1] # NoFn

\* a goroutine has gone through the fast path before done was stored
Raced(g) == cpc[g] = "lock"

\* C12: however the goroutines that call CallGraph() on one cache interleave,
\* cha.CallGraph is executed at most once.
C12_BuildAtMostOnce == builds <= 1

\* the graph is built and stored while another goroutine waits in doSlow
C12_Witness ==
  /\ builds = 1 /\ callGraphOnce.done
  /\ \E g \in Callers : Raced(g)

\* C13: on a cache with a valid SSA result every call of CallGraph() returns
\* one and the same non-nil graph instance.
C13_SameGraphForEveryCall ==
  ValidSSA => (NilGraph \notin returned /\ Cardinality(returned) <= 1)

\* every goroutine has made all its calls and each got the graph
C13_Witness ==
  /\ ValidSSA
  /\ \A g \in Callers : ncalls[g] = MaxCalls /\ cpc[g] = "idle" /\ got[g] = <<callGraph>>
  /\ callGraph # NilGraph

\* C14: with a nil receiver, a nil SSA result, no source functions or a nil
\* first source function, cha.CallGraph is never executed and every call of
\* CallGraph(), the later ones included, returns nil.
C14_NoProgramNoBuild ==
  ~ValidSSA => (builds = 0 /\ returned \subseteq {NilGraph})

\* the first source function is nil and every call of every goroutine
\* returned nil
C14_Witness ==
  /\ cache = "cache" /\ ssa = "ssa" /\ srcFuncs = <<NoFn>>
  /\ \A g \in Callers : ncalls[g] = MaxCalls /\ cpc[g] = "idle" /\ got[g] = <<NilGraph>>

\* C15: when the goroutines inside CallGraph() keep running, every call
\* returns; a goroutine that waits in doSlow returns the built graph; a
\* goroutine that finds done set goes straight to the return statement.
C15_EveryCallReturns ==
  /\ \A g \in Callers : (cpc[g] # "idle") ~> (cpc[g] = "idle")
  /\ \A g \in Callers :
       (Raced(g) /\ ValidSSA) ~> (cpc[g] = "idle" /\ got[g] = <<callGraph>> /\ callGraph # NilGraph)
  /\ [][\A g \in Callers :
          (cpc[g] = "do" /\ callGraphOnce.done) => cpc'[g] \in {"do", "return"}]_vars

\* a goroutine waits for the mutex while another one runs the build
C15_Witness ==
  /\ ValidSSA
  /\ \E g, h \in Callers : Raced(g) /\ cpc[h] = "f" /\ callGraphOnce.m = h

(***************************************************************************)
(* The call graph of the analyzer across calls of Analyze.                 *)
(***************************************************************************)
\* the step of Analyze that executes cha.CallGraph(prog)
BuildsGraph == pc = "idle" /\ pc' = "scan"

\* C16: over any sequence of Analyze calls on one program the CHA call graph
\* is constructed at most once: a call that constructs it finds none built
\* before, and a graph once built stays the analyzer's graph.
C16_GraphBuiltOnce ==
  [][/\ BuildsGraph => a.callGraph = NoGraph
     /\ a.callGraph # NoGraph => a'.callGraph = a.callGraph]_vars

(***************************************************************************)
(* The recursion of the oracle.                                            *)
(***************************************************************************)
\* no element of the list occurs twice
NoRepeat(q) == \A j, k \in DOMAIN q : j # k => q[j] # q[k]

C18_NestingWithinDepth ==
  (asked.proc = "isTainted" /\ asked.depth = 0 /\ asked.seen = {}) =>
    (answer.vis.nest <= maxTaintDepth /\ ~answer.vis.flat)

\* C19: within one query isTainted dispatches on a value at most once; on a
\* value already in the visited map, on nil and at a depth above
\* maxTaintDepth it returns false without dispatching or calling.
C19_DispatchOncePerValue ==
  asked.proc = "isTainted" =>
    /\ NoRepeat(answer.vis.disp)
    /\ (asked.v \in asked.seen \/ asked.v = NilV \/ asked.depth > maxTaintDepth) =>
         (~answer.t /\ answer.vis.disp = <<>> /\ answer.vis.nest = 1)

\* the query on a phi that is an edge of its own edge meets the phi again and
\* dispatches on each value once
C19_Witness ==
  /\ prog.name = "loop"
  /\ asked.proc = "isTainted" /\ asked.v = "g_v" /\ asked.depth = 0
  /\ answer.vis.disp = <<"g_v", "k_id", "g_v2", "k_sel">>

\* C20: the answer of isParameterTainted for a parameter of a function with
\* several in-edges is the same for every order of the in-edges: it is the
\* answer for the order of the call graph.
C20_InEdgeOrderIrrelevant ==
  asked.proc = "isParameterTainted" =>
    answer.t = Oracle("isParameterTainted", <<Cx, asked.v, asked.fn, NewVisited, 0>>).t

(***************************************************************************)
(* Sink matching and the positions of the checked arguments.               *)
(***************************************************************************)
\* the first argument written between the parentheses of the call: Args[0]
\* of an interface call, Args[1] of a static method call (Args[0] is the
\* receiver), or nil when there is none
FirstExplicitArg(call) ==
  LET c == Val(P, call)
      j == IF c.invoke THEN 1 ELSE 2
  IN IF j <= Len(c.args) THEN c.args[j] ELSE NilV

\* the calls of methods: interface calls and static calls of a callee with a
\* receiver
MethodCalls ==
  {call \in CallsOf(P) : P.parent[call] # NoFn /\
     (Val(P, call).invoke \/ FuncOf(P, StaticCallee(P, Val(P, call))).recv # NoType)}

\* C21: a method sink with check-args [1] inspects the first explicit
\* argument of the call, for interface calls as for static method calls: a
\* call that isSinkCall matches with such a sink and whose first explicit
\* argument the oracle classifies tainted yields a finding.
C21_ReceiverAtIndexZero ==
  \A call \in MethodCalls : \A sr \in SinkCallResults(Cx, call) :
    (/\ sr.ok /\ sr.sink.CheckArgs = <<1>>
     /\ Oracle("isTainted", <<Cx, FirstExplicitArg(call), P.parent[call], NewVisited, 0>>).t)
    => scanCall(Cx, P.parent[call], call, sr).results # <<>>

\* the name of the type of a receiver, through one pointer
RecvName(t) ==
  IF t.k = "named" THEN t.name
  ELSE IF t.k = "ptr" /\ t.elem.k = "named" THEN t.elem.name
  ELSE ""

\* the rule of sink matching
Matches(call, sink) ==
  LET c == Val(P, call)
      callee == StaticCallee(P, c)
      f == FuncOf(P, callee)
      rt == TypeOf(P, c.value)
  IN IF c.invoke
     THEN /\ rt.k = "named" /\ sink.Receiver # ""
          /\ sink.Package = rt.pkg /\ sink.Receiver = rt.name /\ sink.Method = c.method
     ELSE IF callee = NoFn THEN FALSE
     ELSE IF f.recv # NoType
     THEN /\ sink.Receiver # ""
          /\ sink.Package = f.pkg /\ sink.Receiver = RecvName(f.recv) /\ sink.Method = f.name
          /\ sink.Pointer = (f.recv.k = "ptr")
     ELSE sink.Receiver = "" /\ sink.Package = f.pkg /\ sink.Method = f.name

\* C22: on every call instruction of the function that Analyze scans,
\* isSinkCall reports a sink iff some configured sink matches the call by the
\* rule (static method call: package, receiver name, method name and pointer
\* flag; interface call: package, receiver name and method name; sink without
\* receiver: callee without receiver), and the sink it returns is one that
\* matches.
C22_SinkMatching ==
  (pc = "scan" /\ i <= Len(srcFuncs)) =>
    \A call \in {c \in CallsOf(P) : P.parent[c] = srcFuncs[i]} :
      \A sr \in SinkCallResults(Cx, call) :
        /\ sr.ok <=> \E k \in DOMAIN a.sinks : Matches(call, a.sinks[k])
        /\ sr.ok => Matches(call, sr.sink)

\* a static call of (*db.DB).Query with the sink declared on the value
\* receiver is not a sink, while the interface call of Write matches the sink
\* declared with the pointer flag
C22_Witness ==
  /\ prog.name = "web"
  /\ a.config.Sinks = <<SinkWrite, SinkWritePtr, SinkQueryVal>>
  /\ pc = "scan" /\ i <= Len(srcFuncs) /\ srcFuncs[i] = "handler"
  /\ \A sr \in SinkCallResults(Cx, "h_c1") : ~sr.ok
  /\ \A sr \in SinkCallResults(Cx, "h_c5") : sr.ok
  /\ \E sr \in SinkCallResults(Cx, "h_c5") : sr.sink = SinkWritePtr

(***************************************************************************)
(* The rules of the oracle, value kind by value kind.                      *)
(***************************************************************************)
\* a query isTainted(v, fn, make(map[ssa.Value]bool), 0) was asked and the
\* model followed it to its end
FreshQuery ==
  /\ asked.proc = "isTainted" /\ asked.depth = 0 /\ asked.seen = {} /\ asked.v # NilV
  /\ ~answer.vis.over

\* the oracle's answer on v queried on its own in fn
OnItsOwn(v, fn) == Oracle("isTainted", <<Cx, v, fn, NewVisited, 0>>).t

\* C23: a binary operation (a phi) is classified tainted iff one of its
\* operands (incoming edges) is classified tainted when queried on its own in
\* the same function and configuration.
C23_BinOpPhiAnyOperand ==
  (FreshQuery /\ Kind(P, asked.v) \in {"BinOp", "Phi"}) =>
    (answer.t <=> \E j \in DOMAIN Operands(Val(P, asked.v)) :
                     OnItsOwn(Operands(Val(P, asked.v))[j], asked.fn))

\* the argument of the call site of the in-edge e that is bound to the
\* parameter at position j (from 1, the receiver first) of the callee: the
\* receiver of an interface call is Call.Value, its arguments follow
BoundArg(e, j) ==
  LET c == Val(P, e.Site)
      n == IF c.invoke THEN j - 1 ELSE j
  IN IF c.invoke /\ j = 1 THEN c.value
     ELSE IF n \in DOMAIN c.args THEN c.args[n]
     ELSE NilV

\* C24: a parameter that is not of a source type is classified tainted iff
\* for some in-edge of its function the argument of the call site bound to
\* it is classified tainted, at static and at interface call sites.
C24_ParameterFromBoundArgument ==
  (/\ asked.proc = "isParameterTainted" /\ ~answer.vis.over
   /\ ~isSourceType(Cx, TypeOf(P, asked.v))) =>
    (answer.t <=> \E j \in DOMAIN a.callGraph.Nodes[asked.fn].In :
                     LET e == a.callGraph.Nodes[asked.fn].In[j]
                     IN OnItsOwn(BoundArg(e, IndexOf(asked.v, FuncOf(P, asked.fn).params)), e.Caller))

\* the values the program stores into the field idx of the struct S
StoredInto(S, idx) ==
  {Val(P, st).Val : st \in {x \in DOMAIN P.vals :
      /\ P.vals[x].kind = "Store"
      /\ Kind(P, P.vals[x].Addr) = "FieldAddr"
      /\ Val(P, P.vals[x].Addr).X = S /\ Val(P, P.vals[x].Addr).Field = idx}}

RECURSIVE AllocsFrom(_, _)
AllocsFrom(v, seen) ==
  IF v = NilV \/ v \in seen THEN {}
  ELSE LET val == Val(P, v)
       IN CASE val.kind = "Alloc" -> {v}
            [] val.kind = "Phi" ->
                 UNION {AllocsFrom(val.Edges[j], seen \cup {v}) : j \in DOMAIN val.Edges}
            [] val.kind \in {"MakeInterface", "ChangeType", "Convert", "UnOp"} ->
                 AllocsFrom(val.X, seen \cup {v})
            [] OTHER -> {}

\* the static callee with a body of the call whose result is the struct of
\* the field address fa, or NoFn
StructCallee(fa) ==
  LET x == Val(P, fa).X
      callee == IF Kind(P, x) = "Call" THEN StaticCallee(P, Val(P, x)) ELSE NoFn
  IN IF callee # NoFn /\ FuncOf(P, callee).blocks # <<>> THEN callee ELSE NoFn

\* C26: field i of the result of a call to a callee with a body is
\* classified tainted iff some allocation reachable from a returned value of
\* the callee (through every edge of a phi) has a store into field i of a
\* caller-tainted value.
C26_FieldViaCallEveryAlloc ==
  (/\ FreshQuery /\ Kind(P, asked.v) = "FieldAddr"
   /\ StructCallee(asked.v) # NoFn
   /\ ~isSourceType(Cx, TypeOf(P, Val(P, asked.v).X))) =>
    LET call == Val(P, asked.v).X
        callee == StructCallee(asked.v)
        rets == ReturnedVals(P, callee)
    IN answer.t <=>
         \E j \in DOMAIN rets : \E al \in AllocsFrom(rets[j], {}) :
           \E x \in StoredInto(al, Val(P, asked.v).Field) :
             Oracle("isCalleValueTainted", <<Cx, x, callee, call, asked.fn, NewVisited, 0>>).t

\* the value is a static call of a package-level function with a body that
\* is neither a sanitizer nor a function source
PlainCallWithBody(v) ==
  LET c == Val(P, v)
  IN /\ c.kind = "Call" /\ ~c.invoke
     /\ Kind(P, c.value) = "Function"
     /\ FuncOf(P, c.value).recv = NoType /\ FuncOf(P, c.value).blocks # <<>>
     /\ ~isSanitizerCall(Cx, v) /\ ~isSourceFuncCall(Cx, v)

C30_NoTaintedArgNoTaint ==
  (FreshQuery /\ PlainCallWithBody(asked.v)) =>
    (answer.t => \E j \in DOMAIN Val(P, asked.v).args : OnItsOwn(Val(P, asked.v).args[j], asked.fn))

\* env("id") returns ext.Getenv("id"), a configured function source, and is
\* not tainted
C30_Witness ==
  /\ prog.name = "flow"
  /\ FreshQuery /\ asked.v = "f_k"
  /\ isSourceFuncCall(Cx, "v_g") /\ InSeq("v_g", ReturnedVals(P, "env"))
  /\ ~answer.t

RECURSIVE OnlyFromGlobal(_)
\* the value is a global whose pkg.Name is not a configured source, the
\* address of one of its fields, or a load from either
OnlyFromGlobal(v) ==
  LET val == Val(P, v)
  IN \/ val.kind = "Global" /\ (val.pkg \o "." \o val.name) \notin DOMAIN a.sources
     \/ val.kind \in {"UnOp", "FieldAddr"} /\ OnlyFromGlobal(val.X)

\* the values stored into the global or into one of its fields
StoredIntoGlobal(v) ==
  {P.vals[x].Val : x \in {y \in DOMAIN P.vals :
      /\ P.vals[y].kind = "Store"
      /\ OnlyFromGlobal(P.vals[y].Addr)
      /\ \/ P.vals[y].Addr = v
         \/ Val(P, P.vals[y].Addr).kind = "FieldAddr" /\ Val(P, P.vals[y].Addr).X = v}}

\* the calls of fn all of whose arguments are derived from such a global
GlobalOnlyCalls(fn) ==
  {c \in DOMAIN P.vals :
     /\ P.vals[c].kind = "Call" /\ P.parent[c] = fn
     /\ P.vals[c].args # <<>>
     /\ \A j \in DOMAIN P.vals[c].args : OnlyFromGlobal(P.vals[c].args[j])}

\* C28: a global variable whose pkg.Name is not a configured source is never
\* classified tainted, in any function and whatever tainted values are stored
\* into it or into its fields, and a sink call whose arguments are derived
\* only from such a global yields no finding.
C28_GlobalNeverTainted ==
  /\ (FreshQuery /\ OnlyFromGlobal(asked.v)) => ~answer.t
  /\ (FreshQuery /\ asked.fn # NoFn) =>
       \A o \in analyzeFunctionSinks(Cx, asked.fn) : \A j \in DOMAIN o.results :
         o.results[j].SinkPos \notin GlobalOnlyCalls(asked.fn)

\* ext.Exec(conf.Val) in Send, after flow stored the tainted t0 into conf.Val
\* and into cached
C28_Witness ==
  /\ prog.name = "flow"
  /\ FreshQuery /\ asked.v = "n_gfl" /\ asked.fn = "Send"
  /\ OnItsOwn("f_t0", "flow")
  /\ "f_t0" \in StoredIntoGlobal("v_conf") /\ "f_t0" \in StoredIntoGlobal("v_cached")
  /\ "n_c4" \in GlobalOnlyCalls("Send") /\ "n_c3" \in GlobalOnlyCalls("Send")
  /\ ~answer.t

(***************************************************************************)
(* Path reconstruction.                                                    *)
(***************************************************************************)
\* C29: on every call graph, recursive functions included, the path that
\* buildPath returns for a function holds no function more than once.
C29_PathWithoutRepeats ==
  ~a.callGraph.nil =>
    \A fn \in DOMAIN a.callGraph.Nodes : NoRepeat(buildPath(Cx, fn))

=============================================================================
